---------------------------- MODULE Spec2Model ----------------------------
(***************************************************************************)
(* A model of tlpin: the dynamic arrays of array.h, the execution engine   *)
(* of tlpin.c (Value, Function, native_pona, native_ike,                   *)
(* execute_functions, main) and the lexer of tlpin.c (LexerContext,        *)
(* try_append_multibyte_lexeme, lex_string, lex_character_literal,         *)
(* lex_program) with sstring_to_double of sized-string.h.                  *)
(*                                                                         *)
(* Conventions.                                                            *)
(*  - An ARRAY_OF(type) is a record [elements, count, capacity]; elements  *)
(*    is the allocated block, a sequence of exactly `capacity` slots, and  *)
(*    a slot that was allocated but never written holds Uninit.            *)
(*  - The storage of a nested ValueArray (the payload of a VALUE_ARRAY) is *)
(*    reached through a pointer, so its `elements` is an address of        *)
(*    `heap`: copying the Value copies the address, not the storage.       *)
(*  - realloc is taken to succeed (the exit(1) of array_reallocate on NULL *)
(*    is not modelled), except where it is asked for 0 bytes: the C        *)
(*    library may answer that with NULL, and both answers are modelled     *)
(*    where array_resize and sstring_read_file can ask for 0 bytes.        *)
(*  - float64 numbers are modelled by integers; every number the model     *)
(*    reaches is a small integer, which float64 represents exactly.        *)
(*  - assert() is compiled in (no -DNDEBUG): a failed assertion aborts the *)
(*    process with the asserted message and changes no memory.             *)
(***************************************************************************)
EXTENDS Integers, Sequences, FiniteSets, TLC

VARIABLES
    program,    \* main: FunctionArray program (the function tree executed)
    stack,      \* main: ValueArray stack
    stack0,     \* the stack as it was handed to execute_functions
    frames,     \* the activations of execute_functions: <<[functions, i]>>
    status,     \* "running", "returned", or the message of the failed assert
    heap,       \* storage of nested ValueArrays, by address
    last,       \* the step execute_functions took last: [op, accessed]
    context,    \* lex_program: LexerContext context
    lex,        \* lex_program: control state and the locals of the sub-lexers
    darray,     \* the ARRAY_OF(type) a call of array_resize is made on
    file,       \* main: FILE* source, the stream sstring_read_file reads
    reader      \* sstring_read_file: chunk_size, contents and its progress

vars == <<program, stack, stack0, frames, status, heap, last, darray, file, reader,
          context, lex>>

----------------------------------------------------------------------------
(* Bounds of the model.                                                    *)

\* Most nodes (Literal, Native and Defined together) of a generated tree.
MaxNodes == 3
\* Most elements of a generated initial stack.
MaxInitStack == 1

----------------------------------------------------------------------------
(* array.h                                                                 *)

\* <stdint.h> SIZE_MAX, (size_t)-1: the largest size_t, and the "unset"
\* start position of the lexer.  It stands for a number above every count,
\* line and column the model reaches; arithmetic on size_t wraps at
\* SIZE_MAX + 1.
SIZE_MAX == 2147483647

\* a + b on size_t.
SizeAdd(a, b) == IF a > SIZE_MAX - b THEN a - (SIZE_MAX - b) - 1 ELSE a + b

ARRAY_INITIAL_CAPACITY == 10
ARRAY_CAPACITY_MULTIPLIER == 2

\* A slot of an allocated block that was never written.
Uninit == [type |-> "UNINIT"]

\* A zero-initialised ARRAY_OF(type): {0}.
ZeroArray == [elements |-> <<>>, count |-> 0, capacity |-> 0]

\* array_reallocate: the block becomes `capacity` slots long; realloc keeps
\* the slots both blocks have and leaves the new ones unwritten.
ArrayReallocate(array) ==
    [array EXCEPT !.elements =
        [k \in 1..array.capacity |->
            IF k <= Len(array.elements) THEN array.elements[k] ELSE Uninit]]

\* array_resize
ArrayResize(array, size) ==
    IF size # array.capacity
    THEN ArrayReallocate(
            [array EXCEPT !.count = IF size < array.count THEN size ELSE @,
                          !.capacity = size])
    ELSE array

\* array_expand
ArrayExpand(array, size) ==
    ArrayReallocate([array EXCEPT !.capacity = @ + size])

\* array_set(array, index, value), index counted from 0 as in C
ArraySet(array, index, value) ==
    [array EXCEPT !.elements[index + 1] = value]

\* array_at(array, index), index counted from 0 as in C
ArrayAt(array, index) == array.elements[index + 1]

\* array_append writing at count without incrementing it.
ArrayAppendNoIncrement(array, element) ==
    LET grown == IF array.count >= array.capacity
                 THEN ArrayReallocate(
                        [array EXCEPT !.capacity =
                            IF 0 = array.capacity
                            THEN ARRAY_INITIAL_CAPACITY
                            ELSE ARRAY_CAPACITY_MULTIPLIER * array.capacity])
                 ELSE array
    IN  ArraySet(grown, grown.count, element)

\* array_append: grow when full, then write at count and increment count.
ArrayAppend(array, element) ==
    LET grown == IF array.count >= array.capacity
                 THEN ArrayReallocate(
                        [array EXCEPT !.capacity =
                            IF 0 = array.capacity
                            THEN ARRAY_INITIAL_CAPACITY
                            ELSE ARRAY_CAPACITY_MULTIPLIER * array.capacity])
                 ELSE array
    IN  [ArraySet(grown, grown.count, element) EXCEPT !.count = @ + 1]

\* The while loop of array_append_many: multiply until the elements fit.
RECURSIVE GrowCapacity(_, _)
GrowCapacity(capacity, needed) ==
    IF needed >= capacity
    THEN GrowCapacity(capacity * ARRAY_CAPACITY_MULTIPLIER, needed)
    ELSE capacity

\* array_append_many: buffer is a sequence, element_count of its elements
\* are copied by memcpy to the slots from count on.
ArrayAppendMany(array, buffer, element_count) ==
    LET grown ==
            IF element_count + array.count >= array.capacity
            THEN ArrayReallocate(
                    [array EXCEPT !.capacity =
                        GrowCapacity(IF 0 = array.capacity
                                     THEN ARRAY_INITIAL_CAPACITY
                                     ELSE array.capacity,
                                     element_count + array.count)])
            ELSE array
    IN  [grown EXCEPT
            !.elements = [k \in 1..Len(grown.elements) |->
                            IF k > grown.count /\ k <= grown.count + element_count
                            THEN buffer[k - grown.count]
                            ELSE grown.elements[k]],
            !.count = @ + element_count]

\* The occupied part of an array: elements[0 .. count-1].
Occupied(array) == SubSeq(array.elements, 1, array.count)

----------------------------------------------------------------------------
(* tlpin.c: Value, Function                                                *)

Number(n) == [type |-> "VALUE_NUMBER", as_number |-> n]
Character(c) == [type |-> "VALUE_CHARACTER", as_character |-> c]
\* A VALUE_ARRAY whose storage is the heap block at `address`.
Array(address, count) ==
    [type |-> "VALUE_ARRAY",
     as_array |-> [elements |-> address, count |-> count, capacity |-> count]]

Literal(value) == [type |-> "FUNCTION_LITERAL", as_literal |-> value]
Native(name) == [type |-> "FUNCTION_NATIVE", as_native |-> name]
Defined(functions) == [type |-> "FUNCTION_DEFINED", as_defined |-> functions]

\* A FunctionArray or ValueArray filled from a zero-initialised array by
\* array_append_many, as main fills `program`.
ArrayOf(seq) == ArrayAppendMany(ZeroArray, seq, Len(seq))


\* Native operations are held as function pointers: the model holds the
\* name of the function pointed to.
NATIVE_PONA == "native_pona"
NATIVE_IKE == "native_ike"

\* The messages of the assertions of the natives.
STACK_UNDERFLOW == "Stack Underflow"
NON_NUMBER == "TODO: handle non-number types"

\* What a call of a native leaves: the stack, the outcome ("ok", or the
\* message of the assertion that aborted the process) and the stack indices
\* whose elements the call read or wrote before it ended.
NativeResult(s, outcome, accessed) ==
    [stack |-> s, outcome |-> outcome, accessed |-> accessed]

\* a->as_number = <value>; --stack->count;
StoreAndPop(s, value) ==
    [ArraySet(s, s.count - 2, [ArrayAt(s, s.count - 2) EXCEPT !.as_number = value])
        EXCEPT !.count = @ - 1]

\* native_pona that also clears the slot it pops: b->as_number = 0.
NativePonaClearsPopped(s) ==
    IF ~(s.count >= 2)
    THEN NativeResult(s, STACK_UNDERFLOW, {})
    ELSE LET a == ArrayAt(s, s.count - 2)
             b == ArrayAt(s, s.count - 1)
         IN  IF ~(a.type = "VALUE_NUMBER")
             THEN NativeResult(s, NON_NUMBER, {s.count - 2})
             ELSE IF ~(b.type = "VALUE_NUMBER")
             THEN NativeResult(s, NON_NUMBER, {s.count - 2, s.count - 1})
             ELSE NativeResult(
                    StoreAndPop(ArraySet(s, s.count - 1, [b EXCEPT !.as_number = 0]),
                                a.as_number + b.as_number),
                    "ok", {s.count - 2, s.count - 1})

\* native_pona: adds values.
NativePona(s) ==
    IF ~(s.count >= 2)
    THEN NativeResult(s, STACK_UNDERFLOW, {})
    ELSE LET a == ArrayAt(s, s.count - 2)
             b == ArrayAt(s, s.count - 1)
         IN  IF ~(a.type = "VALUE_NUMBER")
             THEN NativeResult(s, NON_NUMBER, {s.count - 2})
             ELSE IF ~(b.type = "VALUE_NUMBER")
             THEN NativeResult(s, NON_NUMBER, {s.count - 2, s.count - 1})
             ELSE NativeResult(StoreAndPop(s, a.as_number + b.as_number),
                               "ok", {s.count - 2, s.count - 1})

\* native_ike with its operands exchanged: b - a.
NativeIkeReversed(s) ==
    IF ~(s.count >= 2)
    THEN NativeResult(s, STACK_UNDERFLOW, {})
    ELSE LET a == ArrayAt(s, s.count - 2)
             b == ArrayAt(s, s.count - 1)
         IN  IF ~(a.type = "VALUE_NUMBER")
             THEN NativeResult(s, NON_NUMBER, {s.count - 2})
             ELSE IF ~(b.type = "VALUE_NUMBER")
             THEN NativeResult(s, NON_NUMBER, {s.count - 2, s.count - 1})
             ELSE NativeResult(StoreAndPop(s, b.as_number - a.as_number),
                               "ok", {s.count - 2, s.count - 1})

\* native_ike storing its result in the top slot b, which the pop discards.
NativeIkeStoresInTop(s) ==
    IF ~(s.count >= 2)
    THEN NativeResult(s, STACK_UNDERFLOW, {})
    ELSE LET a == ArrayAt(s, s.count - 2)
             b == ArrayAt(s, s.count - 1)
         IN  IF ~(a.type = "VALUE_NUMBER")
             THEN NativeResult(s, NON_NUMBER, {s.count - 2})
             ELSE IF ~(b.type = "VALUE_NUMBER")
             THEN NativeResult(s, NON_NUMBER, {s.count - 2, s.count - 1})
             ELSE NativeResult(
                    [ArraySet(s, s.count - 1,
                              [b EXCEPT !.as_number = a.as_number - b.as_number])
                        EXCEPT !.count = @ - 1],
                    "ok", {s.count - 2, s.count - 1})

\* native_ike returning early, without an error, when the stack is short.
NativeIkeIgnoresUnderflow(s) ==
    IF ~(s.count >= 2)
    THEN NativeResult(s, "ok", {})
    ELSE LET a == ArrayAt(s, s.count - 2)
             b == ArrayAt(s, s.count - 1)
         IN  IF ~(a.type = "VALUE_NUMBER")
             THEN NativeResult(s, NON_NUMBER, {s.count - 2})
             ELSE IF ~(b.type = "VALUE_NUMBER")
             THEN NativeResult(s, NON_NUMBER, {s.count - 2, s.count - 1})
             ELSE NativeResult(StoreAndPop(s, a.as_number - b.as_number),
                               "ok", {s.count - 2, s.count - 1})

\* native_ike popping before it checks the type of b.
NativeIkePopsBeforeTypeCheck(s) ==
    IF ~(s.count >= 2)
    THEN NativeResult(s, STACK_UNDERFLOW, {})
    ELSE LET a == ArrayAt(s, s.count - 2)
             b == ArrayAt(s, s.count - 1)
         IN  IF ~(a.type = "VALUE_NUMBER")
             THEN NativeResult(s, NON_NUMBER, {s.count - 2})
             ELSE IF ~(b.type = "VALUE_NUMBER")
             THEN NativeResult([s EXCEPT !.count = @ - 1], NON_NUMBER,
                               {s.count - 2, s.count - 1})
             ELSE NativeResult(StoreAndPop(s, a.as_number - b.as_number),
                               "ok", {s.count - 2, s.count - 1})

\* native_ike: subtracts values.
NativeIke(s) ==
    IF ~(s.count >= 2)
    THEN NativeResult(s, STACK_UNDERFLOW, {})
    ELSE LET a == ArrayAt(s, s.count - 2)
             b == ArrayAt(s, s.count - 1)
         IN  IF ~(a.type = "VALUE_NUMBER")
             THEN NativeResult(s, NON_NUMBER, {s.count - 2})
             ELSE IF ~(b.type = "VALUE_NUMBER")
             THEN NativeResult(s, NON_NUMBER, {s.count - 2, s.count - 1})
             ELSE NativeResult(StoreAndPop(s, a.as_number - b.as_number),
                               "ok", {s.count - 2, s.count - 1})

\* function->as_native(stack)
CallNative(name, s) ==
    IF name = NATIVE_PONA THEN NativePona(s) ELSE NativeIke(s)

\* const Function initial_program[]
initial_program ==
    << Literal(Number(30)), Literal(Number(10)), Native(NATIVE_PONA),
       Literal(Number(20)), Native(NATIVE_IKE) >>

\* main: FunctionArray program = {0}; array_append_many(&program,
\* initial_program, ARRAY_SIZE(initial_program), &realloc)
MainProgram == ArrayAppendMany(ZeroArray, initial_program, Len(initial_program))

----------------------------------------------------------------------------
(* The trees and stacks execute_functions is run on.                       *)

\* Address of the storage of the array literal of generated programs, and
\* of the array value of generated initial stacks.
LiteralArrayAddress == "block_of_literal"
StackArrayAddress == "block_of_stack_value"

InitialHeap ==
    [address \in {LiteralArrayAddress, StackArrayAddress} |->
        IF address = LiteralArrayAddress THEN <<Number(7)>> ELSE <<Number(8)>>]

LiteralValues ==
    {Number(1), Number(2), Character("c"), Array(LiteralArrayAddress, 1)}

Leaves ==
    {Literal(v) : v \in LiteralValues} \cup {Native(NATIVE_PONA), Native(NATIVE_IKE)}

\* The sequences of function nodes (forests) with exactly n nodes in all,
\* and the Defined nodes with exactly n nodes in all.
RECURSIVE ForestsOfSize(_), TreesOfSize(_)
ForestsOfSize(n) ==
    IF n = 0 THEN {<<>>}
    ELSE UNION {{<<t>> \o f : t \in TreesOfSize(k), f \in ForestsOfSize(n - k)}
                : k \in 1..n}
TreesOfSize(n) ==
    (IF n = 1 THEN Leaves ELSE {})
        \cup {Defined(ArrayOf(f)) : f \in ForestsOfSize(n - 1)}

Programs ==
    {MainProgram} \cup {ArrayOf(f) : f \in UNION {ForestsOfSize(n) : n \in 0..MaxNodes}}

\* A stack as earlier pushes leave it: array_append of each value in turn
\* to a zero-initialised ValueArray.
RECURSIVE StackOf(_)
StackOf(seq) ==
    IF seq = <<>> THEN ZeroArray
    ELSE ArrayAppend(StackOf(SubSeq(seq, 1, Len(seq) - 1)), seq[Len(seq)])

StackValues ==
    {Number(1), Number(2), Character("c"), Array(StackArrayAddress, 1)}

\* Initial stacks: every nested storage has one owner.
InitialStacks ==
    {StackOf(seq) : seq \in
        {q \in UNION {[1..n -> StackValues] : n \in 0..MaxInitStack} :
            \A i, j \in 1..Len(q) :
                (i # j /\ q[i].type = "VALUE_ARRAY") => q[i] # q[j]}}

----------------------------------------------------------------------------
(* tlpin.c: execute_functions, one step per iteration of its for loop.     *)

\* The lexer is not run by the execution engine.
IdleContext == [program_index |-> 0]
IdleLex == [pc |-> "idle"]
\* No step of execute_functions was taken yet.
IdleLast == [op |-> "none", accessed |-> {}]
\* No array is resized and no file is read.
IdleArray == [elements |-> <<>>, count |-> 0, capacity |-> 0]
IdleFile == [bytes |-> <<>>, position |-> 0, eof |-> FALSE, error |-> FALSE]
IdleReader == [pc |-> "idle"]

InitExec ==
    /\ program \in Programs
    /\ stack0 \in InitialStacks
    /\ stack = stack0
    /\ frames = <<[functions |-> program, i |-> 0]>>
    /\ status = "running"
    /\ heap = InitialHeap
    /\ last = IdleLast
    /\ context = IdleContext
    /\ lex = IdleLex
    /\ darray = IdleArray
    /\ file = IdleFile
    /\ reader = IdleReader

\* The activation on top, and the node its loop is at.
Frame == frames[Len(frames)]
AtNode == status = "running" /\ frames # <<>> /\ Frame.i < Frame.functions.count
Node == ArrayAt(Frame.functions, Frame.i)

\* ++i done twice: the node after the one executed is stepped over.
AdvanceSkipsNext(fs) == [fs EXCEPT ![Len(fs)].i = @ + 2]

\* ++i in the activation on top.
Advance(fs) == [fs EXCEPT ![Len(fs)].i = @ + 1]

\* The recursive call starting its loop at the second child.
EnterDefinedSkipsFirst(fs, functions) ==
    Append(fs, [functions |-> functions, i |-> 1])

\* case FUNCTION_DEFINED: execute_functions(&function->as_defined, stack):
\* a new activation, whose loop starts at i = 0.
EnterDefined(fs, functions) ==
    Append(fs, [functions |-> functions, i |-> 0])

ExecDefined ==
    /\ AtNode
    /\ Node.type = "FUNCTION_DEFINED"
    /\ frames' = EnterDefined(frames, Node.as_defined)
    /\ last' = [op |-> "FUNCTION_DEFINED", accessed |-> {}]
    /\ UNCHANGED <<program, stack, stack0, status, heap, context, lex, darray, file, reader>>

\* case FUNCTION_NATIVE: function->as_native(stack)
ExecNative ==
    /\ AtNode
    /\ Node.type = "FUNCTION_NATIVE"
    /\ LET r == CallNative(Node.as_native, stack)
       IN  /\ stack' = r.stack
           /\ last' = [op |-> Node.as_native, accessed |-> r.accessed]
           /\ IF r.outcome = "ok"
              THEN frames' = Advance(frames) /\ status' = status
              ELSE frames' = frames /\ status' = r.outcome
    /\ UNCHANGED <<program, stack0, heap, context, lex, darray, file, reader>>

\* case FUNCTION_LITERAL: array_append(stack, function->as_literal, &realloc)
ExecLiteral ==
    /\ AtNode
    /\ Node.type = "FUNCTION_LITERAL"
    /\ stack' = ArrayAppend(stack, Node.as_literal)
    /\ frames' = Advance(frames)
    /\ last' = [op |-> "FUNCTION_LITERAL", accessed |-> {stack.count}]
    /\ UNCHANGED <<program, stack0, status, heap, context, lex, darray, file, reader>>

\* i < functions->count fails: the activation returns.  Its caller goes on
\* with ++i; the return of the outermost activation is main's.
ExecReturn ==
    /\ status = "running"
    /\ frames # <<>>
    /\ ~(Frame.i < Frame.functions.count)
    /\ IF Len(frames) = 1
       THEN frames' = <<>> /\ status' = "returned"
       ELSE frames' = Advance(SubSeq(frames, 1, Len(frames) - 1))
            /\ status' = status
    /\ last' = [op |-> "return", accessed |-> {}]
    /\ UNCHANGED <<program, stack, stack0, heap, context, lex, darray, file, reader>>

NextExec == ExecDefined \/ ExecNative \/ ExecLiteral \/ ExecReturn

SpecExec == InitExec /\ [][NextExec]_vars

----------------------------------------------------------------------------
(* <stdlib.h> strtod, as sstring_to_double calls it.  A text is a sequence *)
(* of characters, each a string of length 1.  The hexadecimal form         *)
(* (0x...p...) is not modelled: no text of the model holds an x.  A        *)
(* number is held exactly, by its decimal digits: sign, the significant    *)
(* digits (no leading and no trailing zero) and the power of ten of the    *)
(* last of them; the rounding to binary is not modelled.                   *)

DecimalDigits == <<"0", "1", "2", "3", "4", "5", "6", "7", "8", "9">>
IsDigit(c) == \E d \in 1..10 : DecimalDigits[d] = c
DigitValue(c) == (CHOOSE d \in 1..10 : DecimalDigits[d] = c) - 1

\* isspace in the "C" locale (\v is left out: TLA+ strings cannot hold it).
IsSpace(c) == c \in {" ", "\t", "\n", "\f", "\r"}

\* The characters of an n-char-sequence of NAN(...): digits, letters, _.
IsNChar(c) ==
    \/ IsDigit(c)
    \/ c \in {"a", "b", "c", "d", "e", "f", "n", "t", "i", "y", "_",
              "A", "B", "C", "D", "E", "F", "N", "T", "I", "Y"}

\* The character at C index k of text s, and "\0" where the C string ends.
CharAt(s, k) == IF k < Len(s) THEN s[k + 1] ELSE "\\0"

\* The C index of the first character at or after k that is not a digit, the
\* index of the terminating "\0" if there is none (strtod's scan of a digit
\* sequence).
SkipDigits(s, k) ==
    IF k >= Len(s) THEN k
    ELSE CHOOSE j \in k..Len(s) :
            /\ j = Len(s) \/ ~IsDigit(s[j + 1])
            /\ \A i \in k..(j - 1) : IsDigit(s[i + 1])

\* The same for white space and for the characters of an n-char-sequence.
SkipSpaces(s, k) ==
    IF k >= Len(s) THEN k
    ELSE CHOOSE j \in k..Len(s) :
            /\ j = Len(s) \/ ~IsSpace(s[j + 1])
            /\ \A i \in k..(j - 1) : IsSpace(s[i + 1])

SkipNChars(s, k) ==
    IF k >= Len(s) THEN k
    ELSE CHOOSE j \in k..Len(s) :
            /\ j = Len(s) \/ ~IsNChar(s[j + 1])
            /\ \A i \in k..(j - 1) : IsNChar(s[i + 1])

\* Whether text s holds the letters of word w (lower case) from C index k
\* on, in either case.
Lower(c) ==
    CASE c = "I" -> "i" [] c = "N" -> "n" [] c = "F" -> "f" [] c = "A" -> "a"
      [] c = "T" -> "t" [] c = "Y" -> "y" [] c = "E" -> "e" [] OTHER -> c
HasWord(s, k, w) ==
    /\ k + Len(w) <= Len(s)
    /\ \A j \in 1..Len(w) : Lower(s[k + j]) = w[j]

\* The value of a sequence of digit characters.
RECURSIVE DigitsToNat(_)
DigitsToNat(ds) ==
    IF ds = <<>> THEN 0
    ELSE 10 * DigitsToNat(SubSeq(ds, 1, Len(ds) - 1)) + DigitValue(ds[Len(ds)])

RECURSIVE StripLeadingZeros(_)
StripLeadingZeros(ds) ==
    IF ds # <<>> /\ Head(ds) = "0" THEN StripLeadingZeros(Tail(ds)) ELSE ds

\* The number of zeros a digit sequence ends with.
RECURSIVE TrailingZeros(_)
TrailingZeros(ds) ==
    IF ds # <<>> /\ ds[Len(ds)] = "0"
    THEN 1 + TrailingZeros(SubSeq(ds, 1, Len(ds) - 1))
    ELSE 0

\* The number sign * 0.d1 d2 ... dn * 10^(point), digits without leading or
\* trailing zeros; zero has no digits and point 0.
Finite(sign, ds, exp10) ==
    LET lead == StripLeadingZeros(ds)
        tz == TrailingZeros(lead)
        sig == SubSeq(lead, 1, Len(lead) - tz)
    IN  [kind |-> "finite", sign |-> sign, digits |-> sig,
         point |-> IF sig = <<>> THEN 0 ELSE Len(lead) + exp10]
Infinite(sign) == [kind |-> "inf", sign |-> sign]
NotANumber(sign) == [kind |-> "nan", sign |-> sign]

\* Whether digit sequence x is below digit sequence y, both read as the
\* digits after a decimal point.
RECURSIVE FractionLess(_, _)
FractionLess(x, y) ==
    IF y = <<>> THEN FALSE
    ELSE IF x = <<>> THEN \E j \in 1..Len(y) : y[j] # "0"
    ELSE IF Head(x) # Head(y) THEN DigitValue(Head(x)) < DigitValue(Head(y))
    ELSE FractionLess(Tail(x), Tail(y))

\* <float.h>: the decimal exponents and leading digits of the least
\* magnitude that rounds to infinity (DBL_MAX plus half a unit in the last
\* place, 0.17976931348623158079...e309) and of DBL_MIN
\* (0.22250738585072014e-307).
DBL_OVERFLOW_POINT == 309
DBL_OVERFLOW_DIGITS ==
    <<"1", "7", "9", "7", "6", "9", "3", "1", "3", "4", "8", "6", "2", "3",
      "1", "5", "8", "0", "7", "9">>
DBL_MIN_POINT == -307
DBL_MIN_DIGITS ==
    <<"2", "2", "2", "5", "0", "7", "3", "8", "5", "8", "5", "0", "7", "2",
      "0", "1", "4">>

\* The magnitude rounds to HUGE_VAL: strtod sets errno to ERANGE.
Overflows(v) ==
    /\ v.kind = "finite"
    /\ v.digits # <<>>
    /\ \/ v.point > DBL_OVERFLOW_POINT
       \/ v.point = DBL_OVERFLOW_POINT /\ ~FractionLess(v.digits, DBL_OVERFLOW_DIGITS)

\* The magnitude is below DBL_MIN and not zero: the result is subnormal or
\* zero and strtod sets errno to ERANGE.
Underflows(v) ==
    /\ v.kind = "finite"
    /\ v.digits # <<>>
    /\ \/ v.point < DBL_MIN_POINT
       \/ v.point = DBL_MIN_POINT /\ FractionLess(v.digits, DBL_MIN_DIGITS)

\* strtod's result for a decimal number read in full: the value, rounded to
\* infinity or towards zero where it is out of range, and errno.
StrtodRanged(sign, decimal, end) ==
    [end |-> end,
     value |-> IF Overflows(decimal) THEN Infinite(sign)
               ELSE IF Underflows(decimal) THEN Finite(sign, <<>>, 0)
               ELSE decimal,
     erange |-> Overflows(decimal) \/ Underflows(decimal)]

\* strtod from the exponent part on: the mantissa digits are mantissa, of
\* which fraction_count follow the point, and end at C index fraction_end;
\* the exponent's digits run from exponent_start to exponent_end.  An e
\* without digits is not part of the number.
StrtodExponent(s, sign, mantissa, fraction_count, fraction_end, exponent_start, exponent_end) ==
    IF CharAt(s, fraction_end) \in {"e", "E"} /\ exponent_end > exponent_start
    THEN StrtodRanged(sign,
            Finite(sign, mantissa,
                   (IF CharAt(s, fraction_end + 1) = "-" THEN -1 ELSE 1)
                        * DigitsToNat(SubSeq(s, exponent_start + 1, exponent_end))
                   - fraction_count),
            exponent_end)
    ELSE StrtodRanged(sign, Finite(sign, mantissa, 0 - fraction_count), fraction_end)

\* strtod on a decimal mantissa: digits from C index p to integer_end and,
\* after a point, to fraction_end.
StrtodDecimal(s, sign, p, integer_end, fraction_end, exponent_start) ==
    StrtodExponent(s, sign,
        SubSeq(s, p + 1, integer_end)
            \o (IF fraction_end > integer_end
                THEN SubSeq(s, integer_end + 2, fraction_end) ELSE <<>>),
        IF fraction_end > integer_end THEN fraction_end - integer_end - 1 ELSE 0,
        fraction_end, exponent_start, SkipDigits(s, exponent_start))

\* strtod where no digit starts the number at C index p: INF, INFINITY, NAN
\* or NAN(n-char-sequence) in either case, else no conversion (end pointer at
\* the start of the string, value 0).
StrtodWord(s, sign, p, sequence_end) ==
    IF HasWord(s, p, <<"i", "n", "f", "i", "n", "i", "t", "y">>)
    THEN [end |-> p + 8, value |-> Infinite(sign), erange |-> FALSE]
    ELSE IF HasWord(s, p, <<"i", "n", "f">>)
    THEN [end |-> p + 3, value |-> Infinite(sign), erange |-> FALSE]
    ELSE IF HasWord(s, p, <<"n", "a", "n">>)
    THEN [end |-> IF CharAt(s, p + 3) = "(" /\ CharAt(s, sequence_end) = ")"
                  THEN sequence_end + 1 ELSE p + 3,
          value |-> NotANumber(sign), erange |-> FALSE]
    ELSE [end |-> 0, value |-> Finite(1, <<>>, 0), erange |-> FALSE]

\* strtod after the sign, with the integer digits ending at integer_end and
\* the fraction at fraction_end: a mantissa needs at least one digit.
StrtodMantissa(s, sign, p, integer_end, fraction_end) ==
    IF (integer_end - p) + (IF fraction_end > integer_end
                            THEN fraction_end - integer_end - 1 ELSE 0) > 0
    THEN StrtodDecimal(s, sign, p, integer_end, fraction_end,
            IF CharAt(s, fraction_end + 1) \in {"+", "-"}
            THEN fraction_end + 2 ELSE fraction_end + 1)
    ELSE StrtodWord(s, sign, p, SkipNChars(s, p + 4))

StrtodInteger(s, sign, p, integer_end) ==
    StrtodMantissa(s, sign, p, integer_end,
        IF CharAt(s, integer_end) = "." THEN SkipDigits(s, integer_end + 1)
        ELSE integer_end)

\* strtod after the leading white space, which ends at C index start.
StrtodSigned(s, start) ==
    StrtodInteger(s,
        IF CharAt(s, start) = "-" THEN -1 ELSE 1,
        IF CharAt(s, start) \in {"+", "-"} THEN start + 1 ELSE start,
        SkipDigits(s, IF CharAt(s, start) \in {"+", "-"} THEN start + 1 ELSE start))

\* strtod(cstring, &end_pointer): [end |-> end_pointer - cstring,
\* value |-> the double returned, erange |-> errno = ERANGE].
Strtod(s) == StrtodSigned(s, SkipSpaces(s, 0))

----------------------------------------------------------------------------
(* sized-string.h                                                          *)

\* sstring_to_double without the comparison of the end pointer with count: a
\* number at the start of the text is enough.
SstringToDoubleIgnoresEnd(string) ==
    LET r == Strtod(Occupied(string))
    IN  [value |-> r.value,
         result |->
            IF r.erange /\ r.value.kind = "inf" THEN "SSTRING_CONVERT_OVERFLOW"
            ELSE IF r.erange THEN "SSTRING_CONVERT_UNDERFLOW"
            ELSE "SSTRING_CONVERT_SUCCESS"]

\* sstring_to_double without the tests of errno: a text read in full is a
\* success.
SstringToDoubleIgnoresErange(string) ==
    LET r == Strtod(Occupied(string))
    IN  [value |-> r.value,
         result |->
            IF string.count # r.end THEN "SSTRING_CONVERT_PARSE_FAIL"
            ELSE "SSTRING_CONVERT_SUCCESS"]

\* sstring_to_double with the tests of errno before the test of the end
\* pointer.
SstringToDoubleRangeFirst(string) ==
    LET r == Strtod(Occupied(string))
    IN  [value |-> r.value,
         result |->
            IF r.erange /\ r.value.kind = "inf" THEN "SSTRING_CONVERT_OVERFLOW"
            ELSE IF r.erange THEN "SSTRING_CONVERT_UNDERFLOW"
            ELSE IF string.count # r.end THEN "SSTRING_CONVERT_PARSE_FAIL"
            ELSE "SSTRING_CONVERT_SUCCESS"]

\* sstring_to_double: the characters elements[0 .. count-1] are copied to a
\* C string and handed to strtod; *result is set from the end pointer, errno
\* and the value.
SstringToDouble(string) ==
    LET r == Strtod(Occupied(string))
    IN  [value |-> r.value,
         result |->
            IF string.count # r.end THEN "SSTRING_CONVERT_PARSE_FAIL"
            ELSE IF r.erange /\ r.value.kind = "inf" THEN "SSTRING_CONVERT_OVERFLOW"
            ELSE IF r.erange THEN "SSTRING_CONVERT_UNDERFLOW"
            ELSE "SSTRING_CONVERT_SUCCESS"]

\* A byte of an allocated char block that was never written.
UninitChar == "UNINIT"

\* sstring_reallocate: array_reallocate on a block of char.
SstringReallocate(string) ==
    [string EXCEPT !.elements =
        [k \in 1..string.capacity |->
            IF k <= Len(string.elements) THEN string.elements[k] ELSE UninitChar]]

\* sstring_resize: array_resize on a block of char.
SstringResize(string, size) ==
    IF size # string.capacity
    THEN SstringReallocate(
            [string EXCEPT !.count = IF size < string.count THEN size ELSE @,
                           !.capacity = size])
    ELSE string

\* sstring_expand: array_expand on a block of char.
SstringExpand(string, size) ==
    SstringReallocate([string EXCEPT !.capacity = SizeAdd(@, size)])

\* sstring_append: array_append on a block of char.
SstringAppend(string, element) ==
    LET grown == IF string.count >= string.capacity
                 THEN SstringReallocate(
                        [string EXCEPT !.capacity =
                            IF 0 = string.capacity
                            THEN ARRAY_INITIAL_CAPACITY
                            ELSE ARRAY_CAPACITY_MULTIPLIER * string.capacity])
                 ELSE string
    IN  [ArraySet(grown, grown.count, element) EXCEPT !.count = @ + 1]

\* sstring_free: array_free.
SstringFree(string) == ZeroArray

----------------------------------------------------------------------------
(* tlpin.c: the lexer                                                      *)

MAX_TOKEN_SIZE == 256

\* Lexeme: the type, the active member of the Token union, line and column.
Lexeme(type, token, line, column) ==
    [type |-> type, token |-> token, line |-> line, column |-> column]

\* A diagnostic written to stderr: "name(line:column): Error: message".
Diagnostic(line, column, message) ==
    [line |-> line, column |-> column, message |-> message]

\* lexeme.token.as_atom after sstring_resize to count, the memcpy of the
\* token buffer and the assignment of count.
AtomCopy(token_buffer) ==
    LET resized == SstringResize(ZeroArray, token_buffer.count)
    IN  [resized EXCEPT
            !.elements = [k \in 1..Len(resized.elements) |->
                            IF k <= token_buffer.count
                            THEN token_buffer.elements[k]
                            ELSE resized.elements[k]],
            !.count = token_buffer.count]

\* try_append_multibyte_lexeme without the return on an empty token buffer.
TryAppendMultibyteLexemeNoReturn(ctx) ==
    LET conversion == SstringToDouble(ctx.token_buffer)
        lexeme ==
            IF conversion.result = "SSTRING_CONVERT_SUCCESS"
            THEN Lexeme("TOKEN_FLOAT", [as_float |-> conversion.value],
                        ctx.multibyte_line, ctx.multibyte_column)
            ELSE Lexeme("TOKEN_ATOM", [as_atom |-> AtomCopy(ctx.token_buffer)],
                        ctx.multibyte_line, ctx.multibyte_column)
    IN  [ctx EXCEPT
            !.failed = @ \/ conversion.result \in
                            {"SSTRING_CONVERT_UNDERFLOW", "SSTRING_CONVERT_OVERFLOW"},
            !.lexemes = ArrayAppend(@, lexeme),
            !.token_buffer.count = 0,
            !.multibyte_line = SIZE_MAX,
            !.multibyte_column = SIZE_MAX]

\* try_append_multibyte_lexeme without the goto lend of the success case: the
\* number falls through to the Atom code.
TryAppendMultibyteLexemeFallsThrough(ctx) ==
    IF 0 = ctx.token_buffer.count THEN ctx
    ELSE LET conversion == SstringToDouble(ctx.token_buffer)
         IN  [ctx EXCEPT
                !.failed = @ \/ conversion.result \in
                                {"SSTRING_CONVERT_UNDERFLOW", "SSTRING_CONVERT_OVERFLOW"},
                !.lexemes = ArrayAppend(@,
                    Lexeme("TOKEN_ATOM", [as_atom |-> AtomCopy(ctx.token_buffer)],
                           ctx.multibyte_line, ctx.multibyte_column)),
                !.token_buffer.count = 0,
                !.multibyte_line = SIZE_MAX,
                !.multibyte_column = SIZE_MAX]

\* try_append_multibyte_lexeme: the context it leaves.
TryAppendMultibyteLexeme(ctx) ==
    IF 0 = ctx.token_buffer.count THEN ctx
    ELSE LET conversion == SstringToDouble(ctx.token_buffer)
             lexeme ==
                IF conversion.result = "SSTRING_CONVERT_SUCCESS"
                THEN Lexeme("TOKEN_FLOAT", [as_float |-> conversion.value],
                            ctx.multibyte_line, ctx.multibyte_column)
                ELSE Lexeme("TOKEN_ATOM", [as_atom |-> AtomCopy(ctx.token_buffer)],
                            ctx.multibyte_line, ctx.multibyte_column)
         IN  [ctx EXCEPT
                !.failed = @ \/ conversion.result \in
                                {"SSTRING_CONVERT_UNDERFLOW", "SSTRING_CONVERT_OVERFLOW"},
                !.lexemes = ArrayAppend(@, lexeme),
                !.token_buffer.count = 0,
                !.multibyte_line = SIZE_MAX,
                !.multibyte_column = SIZE_MAX]

\* try_append_multibyte_lexeme: what it writes to stderr.
TryAppendDiagnostics(ctx) ==
    IF 0 = ctx.token_buffer.count THEN <<>>
    ELSE LET result == SstringToDouble(ctx.token_buffer).result
         IN  IF result = "SSTRING_CONVERT_UNDERFLOW"
             THEN <<Diagnostic(ctx.multibyte_line, ctx.multibyte_column,
                               "Float conversion results in underflow")>>
             ELSE IF result = "SSTRING_CONVERT_OVERFLOW"
             THEN <<Diagnostic(ctx.multibyte_line, ctx.multibyte_column,
                               "Float conversion results in overflow")>>
             ELSE <<>>

\* try_append_multibyte_lexeme: where in the source the lexeme it appends
\* starts.  The pending characters are those right before the cursor.
FlushStarts(ctx) ==
    IF 0 = ctx.token_buffer.count THEN <<>>
    ELSE <<ctx.program_index - ctx.token_buffer.count>>

\* The source text as lex_program receives it, a const sstring_t*.
SourceString(text) ==
    [elements |-> text, count |-> Len(text), capacity |-> Len(text)]

\* lex_program: LexerContext context = {...}; sstring_resize(
\* &context.token_buffer, MAX_TOKEN_SIZE, context.realloc)
InitialContext(text) ==
    [program |-> SourceString(text),
     program_index |-> 0,
     token_buffer |-> SstringResize(ZeroArray, MAX_TOKEN_SIZE),
     lexemes |-> ZeroArray,
     line |-> 1,
     column |-> 0,
     multibyte_line |-> SIZE_MAX,
     multibyte_column |-> SIZE_MAX,
     failed |-> FALSE]

\* Control state: where the lexer is (pc), the locals of lex_string (string,
\* found_end_quote) and of lex_character_literal (character), and stderr.
\* opening_index is the value program_index had when lex_string was entered,
\* the C index of the opening quote; the code does not keep it, it is
\* recorded so that a literal's place in the source can be stated.  stdout
\* is what main's dump_lexemes wrote, character by character.  starts
\* is likewise a record of the run: for every lexeme appended, in order, the
\* C index in the source of its first character; examined, for every read
\* of a character of the source by sstring_at, in order, the C index read.
InitialLex ==
    [pc |-> "lex_program", string |-> ZeroArray, found_end_quote |-> FALSE,
     character |-> "\\0", stderr |-> <<>>, stdout |-> <<>>,
     opening_index |-> 0, starts |-> <<>>, examined |-> <<>>]

\* The main loop of lex_program is at a character of the source.
AtCharacter ==
    /\ lex.pc = "lex_program"
    /\ context.program_index < context.program.count
\* char character = sstring_at(context.program, context.program_index)
CurrentCharacter == ArrayAt(context.program, context.program_index)

\* sstring_at(context.program, index): the read is recorded.
Examine(l, index) == [l EXCEPT !.examined = Append(@, index)]

\* The two reads of an escape: the backslash at index, then the character
\* after it.
ExamineEscape(l, index) == Examine(Examine(l, index), index + 1)

\* array_append(&context.lexemes, lexeme, context.realloc) of a lexeme of
\* one character at the current line and column.
AppendHere(ctx, type, token) ==
    [ctx EXCEPT !.lexemes = ArrayAppend(@, Lexeme(type, token, ctx.line, ctx.column))]

\* case '\n' of lex_program, and the ++program_index of its for loop.
LexNewline ==
    /\ AtCharacter
    /\ CurrentCharacter = "\n"
    /\ LET flushed == TryAppendMultibyteLexeme(context)
           appended == AppendHere(flushed, "TOKEN_NEWLINE",
                                  [as_newline |-> CurrentCharacter])
       IN  context' = [appended EXCEPT !.line = @ + 1, !.column = 0,
                                       !.program_index = @ + 1]
    /\ lex' = [Examine(lex, context.program_index) EXCEPT !.stderr = @ \o TryAppendDiagnostics(context),
                          !.starts = @ \o FlushStarts(context)
                                        \o <<context.program_index>>]
    /\ UNCHANGED <<program, stack, stack0, frames, status, heap, last, darray, file, reader>>

\* case '(' and ')' of lex_program with the flush after the append of the
\* Parenthesis.
LexParenthesisBeforeFlush ==
    /\ AtCharacter
    /\ CurrentCharacter \in {"(", ")"}
    /\ LET appended == AppendHere(context, "TOKEN_PARENTHESIS",
                                  [as_parenthesis |-> CurrentCharacter])
           flushed == TryAppendMultibyteLexeme(appended)
       IN  context' = [flushed EXCEPT !.column = @ + 1, !.program_index = @ + 1]
    /\ lex' = [Examine(lex, context.program_index) EXCEPT !.stderr = @ \o TryAppendDiagnostics(context),
                          !.starts = @ \o <<context.program_index>>
                                        \o FlushStarts(context)]
    /\ UNCHANGED <<program, stack, stack0, frames, status, heap, last, darray, file, reader>>

\* case '(' and ')' of lex_program.
LexParenthesis ==
    /\ AtCharacter
    /\ CurrentCharacter \in {"(", ")"}
    /\ LET flushed == TryAppendMultibyteLexeme(context)
           appended == AppendHere(flushed, "TOKEN_PARENTHESIS",
                                  [as_parenthesis |-> CurrentCharacter])
       IN  context' = [appended EXCEPT !.column = @ + 1, !.program_index = @ + 1]
    /\ lex' = [Examine(lex, context.program_index) EXCEPT !.stderr = @ \o TryAppendDiagnostics(context),
                          !.starts = @ \o FlushStarts(context)
                                        \o <<context.program_index>>]
    /\ UNCHANGED <<program, stack, stack0, frames, status, heap, last, darray, file, reader>>

\* case '{' and '}' of lex_program as a copy of the case above it: the
\* lexeme is a Parenthesis.
LexBracketAsParenthesis ==
    /\ AtCharacter
    /\ CurrentCharacter \in {"{", "}"}
    /\ LET flushed == TryAppendMultibyteLexeme(context)
           appended == AppendHere(flushed, "TOKEN_PARENTHESIS",
                                  [as_parenthesis |-> CurrentCharacter])
       IN  context' = [appended EXCEPT !.column = @ + 1, !.program_index = @ + 1]
    /\ lex' = [Examine(lex, context.program_index) EXCEPT !.stderr = @ \o TryAppendDiagnostics(context),
                          !.starts = @ \o FlushStarts(context)
                                        \o <<context.program_index>>]
    /\ UNCHANGED <<program, stack, stack0, frames, status, heap, last, darray, file, reader>>

\* case '{' and '}' of lex_program.
LexBracket ==
    /\ AtCharacter
    /\ CurrentCharacter \in {"{", "}"}
    /\ LET flushed == TryAppendMultibyteLexeme(context)
           appended == AppendHere(flushed, "TOKEN_BRACKET",
                                  [as_bracket |-> CurrentCharacter])
       IN  context' = [appended EXCEPT !.column = @ + 1, !.program_index = @ + 1]
    /\ lex' = [Examine(lex, context.program_index) EXCEPT !.stderr = @ \o TryAppendDiagnostics(context),
                          !.starts = @ \o FlushStarts(context)
                                        \o <<context.program_index>>]
    /\ UNCHANGED <<program, stack, stack0, frames, status, heap, last, darray, file, reader>>

\* case ' ' and '\t' of lex_program taken for the default case: the character
\* is accumulated.
LexWhitespaceAccumulated ==
    /\ AtCharacter
    /\ CurrentCharacter \in {" ", "\t"}
    /\ context' = [context EXCEPT
                      !.multibyte_line = IF SIZE_MAX = @ THEN context.line ELSE @,
                      !.multibyte_column = IF SIZE_MAX = @ THEN context.column ELSE @,
                      !.token_buffer = SstringAppend(@, CurrentCharacter),
                      !.column = @ + 1,
                      !.program_index = @ + 1]
    /\ lex' = Examine(lex, context.program_index)
    /\ UNCHANGED <<program, stack, stack0, frames, status, heap, last, darray, file, reader>>

\* case ' ' and '\t' of lex_program.
LexWhitespace ==
    /\ AtCharacter
    /\ CurrentCharacter \in {" ", "\t"}
    /\ LET flushed == TryAppendMultibyteLexeme(context)
       IN  context' = [flushed EXCEPT !.column = @ + 1, !.program_index = @ + 1]
    /\ lex' = [Examine(lex, context.program_index) EXCEPT !.stderr = @ \o TryAppendDiagnostics(context),
                          !.starts = @ \o FlushStarts(context)]
    /\ UNCHANGED <<program, stack, stack0, frames, status, heap, last, darray, file, reader>>

\* The characters lex_program has a case for; every other goes to default.
Delimiters == {"\n", "(", ")", "{", "}", "\"", "'", " ", "\t"}

\* The start position recorded at every character, not only at the first.
MarkStartAlways(ctx) ==
    [ctx EXCEPT !.multibyte_line = ctx.line, !.multibyte_column = ctx.column]

\* default of lex_program: the start position is set where it is unset.
MarkStart(ctx) ==
    [ctx EXCEPT
        !.multibyte_line = IF SIZE_MAX = @ THEN ctx.line ELSE @,
        !.multibyte_column = IF SIZE_MAX = @ THEN ctx.column ELSE @]

\* default of lex_program without the test of the token buffer's size.
LexDefaultNoLimit ==
    /\ AtCharacter
    /\ CurrentCharacter \notin Delimiters
    /\ context' = [MarkStart(context) EXCEPT
                      !.token_buffer = SstringAppend(@, CurrentCharacter),
                      !.column = @ + 1,
                      !.program_index = @ + 1]
    /\ lex' = Examine(lex, context.program_index)
    /\ UNCHANGED <<program, stack, stack0, frames, status, heap, last, darray, file, reader>>

\* default of lex_program with room in the token buffer: the character is
\* accumulated.
LexDefault ==
    /\ AtCharacter
    /\ CurrentCharacter \notin Delimiters
    /\ ~(MAX_TOKEN_SIZE <= context.token_buffer.count)
    /\ context' = [MarkStart(context) EXCEPT
                      !.token_buffer = SstringAppend(@, CurrentCharacter),
                      !.column = @ + 1,
                      !.program_index = @ + 1]
    /\ lex' = Examine(lex, context.program_index)
    /\ UNCHANGED <<program, stack, stack0, frames, status, heap, last, darray, file, reader>>

\* default of lex_program with the token buffer full: exit(1).
LexTokenTooLarge ==
    /\ AtCharacter
    /\ CurrentCharacter \notin Delimiters
    /\ MAX_TOKEN_SIZE <= context.token_buffer.count
    /\ lex' = [Examine(lex, context.program_index) EXCEPT
                  !.pc = "exit",
                  !.stderr = Append(@, Diagnostic(context.line, context.column,
                        "Encountered token larger than the maximum allowed size"))]
    /\ UNCHANGED <<program, stack, stack0, frames, status, heap, last, darray, file, reader, context>>

\* lunterminated_string and lunterminated_character_literal: the error is
\* reported at the start position and the process exits.
Unterminated(ctx, message) ==
    [lex EXCEPT
        !.pc = "exit",
        !.stderr = Append(@, Diagnostic(ctx.multibyte_line, ctx.multibyte_column,
                                        message))]

\* case '"' of lex_program: the flush, then lex_string up to its loop.
LexStringBegin ==
    /\ AtCharacter
    /\ CurrentCharacter = "\""
    /\ LET flushed == TryAppendMultibyteLexeme(context)
       IN  context' = [flushed EXCEPT
                          !.multibyte_line = flushed.line,
                          !.multibyte_column = flushed.column,
                          !.column = @ + 1,
                          !.program_index = @ + 1]
    /\ lex' = [Examine(lex, context.program_index) EXCEPT !.pc = "lex_string",
                          !.opening_index = context.program_index,
                          !.starts = @ \o FlushStarts(context),
                          !.string = ZeroArray,
                          !.found_end_quote = FALSE,
                          !.stderr = @ \o TryAppendDiagnostics(context)]
    /\ UNCHANGED <<program, stack, stack0, frames, status, heap, last, darray, file, reader>>

\* The loop of lex_string is at a character of the source.
InString ==
    /\ lex.pc = "lex_string"
    /\ context.program_index < context.program.count
    /\ ~lex.found_end_quote

\* case '"' of lex_string with the cursor put back for the ++program_index
\* that follows: the cursor stays on the closing quote.
LexStringQuoteStaysPut ==
    /\ InString
    /\ CurrentCharacter = "\""
    /\ lex' = [Examine(lex, context.program_index) EXCEPT !.found_end_quote = TRUE]
    /\ context' = [context EXCEPT !.column = @ + 1]
    /\ UNCHANGED <<program, stack, stack0, frames, status, heap, last, darray, file, reader>>

\* case '"' of lex_string.
LexStringQuote ==
    /\ InString
    /\ CurrentCharacter = "\""
    /\ lex' = [Examine(lex, context.program_index) EXCEPT !.found_end_quote = TRUE]
    /\ context' = [context EXCEPT !.column = @ + 1, !.program_index = @ + 1]
    /\ UNCHANGED <<program, stack, stack0, frames, status, heap, last, darray, file, reader>>

\* case '\n' of lex_string.
LexStringNewline ==
    /\ InString
    /\ CurrentCharacter = "\n"
    /\ context' = [context EXCEPT !.line = @ + 1, !.column = 0,
                                  !.program_index = @ + 1]
    /\ lex' = Examine(lex, context.program_index)
    /\ UNCHANGED <<program, stack, stack0, frames, status, heap, last, darray, file, reader>>

\* The character an escape stands for, for the four escapes of lex_string.
StringEscapes == {"\"", "\\", "n", "t"}
ResolveEscape(c) ==
    CASE c = "n" -> "\n" [] c = "t" -> "\t" [] OTHER -> c

\* case '\\' of lex_string without context->failed = true in the default of
\* the inner switch.
LexStringEscapeForgetsFailed ==
    /\ InString
    /\ CurrentCharacter = "\\"
    /\ IF context.program_index + 1 >= context.program.count
       THEN /\ context' = [context EXCEPT !.program_index = @ + 1]
            /\ lex' = Examine(Unterminated(context, "Unterminated string"),
                                   context.program_index)
       ELSE LET escaped == ArrayAt(context.program, context.program_index + 1)
            IN  /\ context' = [context EXCEPT !.column = @ + 2,
                                              !.program_index = @ + 2]
                /\ lex' = IF escaped \in StringEscapes
                          THEN [ExamineEscape(lex, context.program_index) EXCEPT !.string =
                                    SstringAppend(@, ResolveEscape(escaped))]
                          ELSE [ExamineEscape(lex, context.program_index) EXCEPT !.stderr =
                                    Append(@, Diagnostic(context.line, context.column,
                                                         "Unknown escape sequence"))]
    /\ UNCHANGED <<program, stack, stack0, frames, status, heap, last, darray, file, reader>>

\* case '\\' of lex_string.
LexStringEscape ==
    /\ InString
    /\ CurrentCharacter = "\\"
    /\ IF context.program_index + 1 >= context.program.count
       THEN /\ context' = [context EXCEPT !.program_index = @ + 1]
            /\ lex' = Examine(Unterminated(context, "Unterminated string"),
                                   context.program_index)
       ELSE LET escaped == ArrayAt(context.program, context.program_index + 1)
            IN  /\ context' = [context EXCEPT
                                  !.failed = @ \/ escaped \notin StringEscapes,
                                  !.column = @ + 2,
                                  !.program_index = @ + 2]
                /\ lex' = IF escaped \in StringEscapes
                          THEN [ExamineEscape(lex, context.program_index) EXCEPT !.string =
                                    SstringAppend(@, ResolveEscape(escaped))]
                          ELSE [ExamineEscape(lex, context.program_index) EXCEPT !.stderr =
                                    Append(@, Diagnostic(context.line, context.column,
                                                         "Unknown escape sequence"))]
    /\ UNCHANGED <<program, stack, stack0, frames, status, heap, last, darray, file, reader>>

\* default of lex_string.
LexStringDefault ==
    /\ InString
    /\ CurrentCharacter \notin {"\"", "\n", "\\"}
    /\ lex' = [Examine(lex, context.program_index) EXCEPT !.string = SstringAppend(@, CurrentCharacter)]
    /\ context' = [context EXCEPT !.column = @ + 1, !.program_index = @ + 1]
    /\ UNCHANGED <<program, stack, stack0, frames, status, heap, last, darray, file, reader>>

\* The Lexeme lex_string appends: the string at the start position.
StringLexeme(ctx, string) ==
    Lexeme("TOKEN_STRING", [as_string |-> string],
           ctx.multibyte_line, ctx.multibyte_column)

\* The end of lex_string without the reset of the start position.
LexStringEndKeepsStart ==
    /\ lex.pc = "lex_string"
    /\ ~InString
    /\ IF ~lex.found_end_quote
       THEN /\ lex' = Unterminated(context, "Unterminated string")
            /\ context' = context
       ELSE /\ context' = [context EXCEPT
                              !.lexemes = ArrayAppend(@, StringLexeme(context, lex.string)),
                              !.program_index = @ + 1]
            /\ lex' = [lex EXCEPT !.pc = "lex_program",
                                  !.starts = Append(@, lex.opening_index)]
    /\ UNCHANGED <<program, stack, stack0, frames, status, heap, last, darray, file, reader>>

\* The loop of lex_string has ended: without the end quote the string is
\* unterminated; with it the String lexeme is appended, lex_string returns
\* and the for loop of lex_program does its ++program_index.
LexStringEnd ==
    /\ lex.pc = "lex_string"
    /\ ~InString
    /\ IF ~lex.found_end_quote
       THEN /\ lex' = Unterminated(context, "Unterminated string")
            /\ context' = context
       ELSE /\ context' = [context EXCEPT
                              !.lexemes = ArrayAppend(@, StringLexeme(context, lex.string)),
                              !.multibyte_line = SIZE_MAX,
                              !.multibyte_column = SIZE_MAX,
                              !.program_index = @ + 1]
            /\ lex' = [lex EXCEPT !.pc = "lex_program",
                                  !.starts = Append(@, lex.opening_index)]
    /\ UNCHANGED <<program, stack, stack0, frames, status, heap, last, darray, file, reader>>

\* case '\'' of lex_program: the flush, then lex_character_literal up to
\* the read of the character after the opening quote.
LexCharacterBegin ==
    /\ AtCharacter
    /\ CurrentCharacter = "'"
    /\ LET flushed == TryAppendMultibyteLexeme(context)
           opened == [flushed EXCEPT
                          !.multibyte_line = flushed.line,
                          !.multibyte_column = flushed.column,
                          !.column = @ + 1,
                          !.program_index = @ + 1]
           diagnostics == [Examine(lex, context.program_index) EXCEPT !.stderr = @ \o TryAppendDiagnostics(context),
                                       !.opening_index = context.program_index,
                                       !.starts = @ \o FlushStarts(context)]
       IN  /\ context' = opened
           /\ lex' = IF opened.program_index >= opened.program.count
                     THEN [diagnostics EXCEPT
                            !.pc = "exit",
                            !.stderr = Append(@, Diagnostic(opened.multibyte_line,
                                                            opened.multibyte_column,
                                                            "Unterminated character literal"))]
                     ELSE [diagnostics EXCEPT !.pc = "lex_character_literal"]
    /\ UNCHANGED <<program, stack, stack0, frames, status, heap, last, darray, file, reader>>

\* The character an escape of a character literal stands for.
CharacterEscapes == {"'", "\\", "n", "t"}

\* lex_character_literal from the read of the character to the test for
\* the closing quote: the character, or the escape, is consumed.
LexCharacterBody ==
    /\ lex.pc = "lex_character_literal"
    /\ LET first == CurrentCharacter
           escape == first = "\\"
           \* ++column; ++program_index past the backslash
           atEscaped == IF escape
                        THEN [context EXCEPT !.column = @ + 1, !.program_index = @ + 1]
                        ELSE context
           cutInEscape == escape /\ atEscaped.program_index >= atEscaped.program.count
           escaped == ArrayAt(atEscaped.program, atEscaped.program_index)
           unknown == escape /\ ~cutInEscape /\ escaped \notin CharacterEscapes
           character == IF escape THEN ResolveEscape(escaped) ELSE first
           \* the reads of sstring_at up to here
           read == IF escape /\ ~cutInEscape
                   THEN ExamineEscape(lex, context.program_index)
                   ELSE Examine(lex, context.program_index)
           reported == IF unknown
                       THEN [read EXCEPT !.stderr =
                                Append(@, Diagnostic(atEscaped.line, atEscaped.column,
                                                     "Unknown escape sequence"))]
                       ELSE read
           \* ++column; ++program_index to the closing quote
           atClose == [atEscaped EXCEPT !.failed = @ \/ unknown,
                                        !.column = @ + 1,
                                        !.program_index = @ + 1]
       IN  IF cutInEscape
           THEN /\ context' = atEscaped
                /\ lex' = Examine(Unterminated(atEscaped, "Unterminated character literal"),
                                   context.program_index)
           ELSE /\ context' = atClose
                /\ IF atClose.program_index >= atClose.program.count
                   THEN lex' = [reported EXCEPT
                                  !.pc = "exit",
                                  !.stderr = Append(@,
                                      Diagnostic(atClose.multibyte_line,
                                                 atClose.multibyte_column,
                                                 "Unterminated character literal"))]
                   ELSE IF "'" # ArrayAt(atClose.program, atClose.program_index)
                   THEN lex' = [Examine(reported, atClose.program_index) EXCEPT
                                  !.pc = "exit",
                                  !.stderr = Append(@,
                                      Diagnostic(atClose.multibyte_line,
                                                 atClose.multibyte_column,
                                                 "Unterminated character literal"))]
                   ELSE lex' = [Examine(reported, atClose.program_index) EXCEPT
                                                !.pc = "lex_character_literal_end",
                                                !.character = character]
    /\ UNCHANGED <<program, stack, stack0, frames, status, heap, last, darray, file, reader>>

\* lex_character_literal from the closing quote on: it is consumed, the
\* Character lexeme is appended at the start position, the function
\* returns and the for loop of lex_program does its ++program_index.
LexCharacterEnd ==
    /\ lex.pc = "lex_character_literal_end"
    /\ context' = [context EXCEPT
                      !.lexemes = ArrayAppend(@,
                            Lexeme("TOKEN_CHARACTER", [as_character |-> lex.character],
                                   context.multibyte_line, context.multibyte_column)),
                      !.multibyte_line = SIZE_MAX,
                      !.multibyte_column = SIZE_MAX,
                      !.column = @ + 1,
                      !.program_index = @ + 2]
    /\ lex' = [lex EXCEPT !.pc = "lex_program",
                          !.starts = Append(@, lex.opening_index)]
    /\ UNCHANGED <<program, stack, stack0, frames, status, heap, last, darray, file, reader>>

\* The end of lex_program without the test of context.failed.
LexFinishIgnoresFailed ==
    /\ lex.pc = "lex_program"
    /\ ~(context.program_index < context.program.count)
    /\ LET flushed == TryAppendMultibyteLexeme(context)
       IN  /\ context' = [flushed EXCEPT !.token_buffer = SstringFree(@)]
           /\ lex' = [lex EXCEPT !.pc = "returned",
                                 !.stderr = @ \o TryAppendDiagnostics(context),
                                 !.starts = @ \o FlushStarts(context)]
    /\ UNCHANGED <<program, stack, stack0, frames, status, heap, last, darray, file, reader>>

\* The end of lex_program without the last flush.
LexFinishNoFlush ==
    /\ lex.pc = "lex_program"
    /\ ~(context.program_index < context.program.count)
    /\ IF context.failed
       THEN /\ context' = context
            /\ lex' = [lex EXCEPT !.pc = "exit"]
       ELSE /\ context' = [context EXCEPT !.token_buffer = SstringFree(@)]
            /\ lex' = [lex EXCEPT !.pc = "returned"]
    /\ UNCHANGED <<program, stack, stack0, frames, status, heap, last, darray, file, reader>>

\* The loop of lex_program has ended: the last flush, then exit(1) if an
\* error was reported, else the token buffer is freed and the lexemes are
\* returned.
LexFinish ==
    /\ lex.pc = "lex_program"
    /\ ~(context.program_index < context.program.count)
    /\ LET flushed == TryAppendMultibyteLexeme(context)
       IN  IF flushed.failed
           THEN /\ context' = flushed
                /\ lex' = [lex EXCEPT !.pc = "exit",
                                      !.stderr = @ \o TryAppendDiagnostics(context),
                                      !.starts = @ \o FlushStarts(context)]
           ELSE /\ context' = [flushed EXCEPT !.token_buffer = SstringFree(@)]
                /\ lex' = [lex EXCEPT !.pc = "returned",
                                      !.stderr = @ \o TryAppendDiagnostics(context),
                                      !.starts = @ \o FlushStarts(context)]
    /\ UNCHANGED <<program, stack, stack0, frames, status, heap, last, darray, file, reader>>

\* #define SOURCE_FILE "test.tlpin", character by character.
SOURCE_FILE == <<"t", "e", "s", "t", ".", "t", "l", "p", "i", "n">>

\* token_type_name: the name of the enumerator, character by character.
TokenTypeName(type) ==
    CASE type = "TOKEN_STRING" ->
            <<"T", "O", "K", "E", "N", "_", "S", "T", "R", "I", "N", "G">>
      [] type = "TOKEN_CHARACTER" ->
            <<"T", "O", "K", "E", "N", "_", "C", "H", "A", "R", "A", "C", "T", "E", "R">>
      [] type = "TOKEN_FLOAT" ->
            <<"T", "O", "K", "E", "N", "_", "F", "L", "O", "A", "T">>
      [] type = "TOKEN_ATOM" ->
            <<"T", "O", "K", "E", "N", "_", "A", "T", "O", "M">>
      [] type = "TOKEN_NEWLINE" ->
            <<"T", "O", "K", "E", "N", "_", "N", "E", "W", "L", "I", "N", "E">>
      [] type = "TOKEN_PARENTHESIS" ->
            <<"T", "O", "K", "E", "N", "_", "P", "A", "R", "E", "N", "T", "H", "E", "S", "I", "S">>
      [] type = "TOKEN_BRACKET" ->
            <<"T", "O", "K", "E", "N", "_", "B", "R", "A", "C", "K", "E", "T">>

\* What fprintf writes for %zu: the decimal digits of the number.
RECURSIVE FormatSize(_)
FormatSize(n) ==
    IF n < 10 THEN <<DecimalDigits[n + 1]>>
    ELSE Append(FormatSize(n \div 10), DecimalDigits[(n % 10) + 1])

\* What fprintf writes for %f.  The digits printf makes of a double are not
\* worked out: the conversion is one element of the stream, which carries
\* the number converted.
FormatFloat(value) == <<ToString(value)>>

\* fprintf(stream, "%s(%zu:%zu): %s", program_name, lexeme->line,
\* lexeme->column, token_type_name(lexeme->type)): what every case of
\* dump_lexemes writes first.
DumpPosition(lexeme, program_name) ==
    program_name \o <<"(">> \o FormatSize(lexeme.line) \o <<":">>
        \o FormatSize(lexeme.column) \o <<")", ":", " ">>
        \o TokenTypeName(lexeme.type)

\* The inner switch of case TOKEN_STRING (with quote ") and the switch of
\* case TOKEN_CHARACTER (with quote '): what is written for one character.
DumpCharacter(character, quote) ==
    IF character \in {quote, "\\"} THEN <<"\\", character>>
    ELSE IF character = "\n" THEN <<"\\", "n">>
    ELSE IF character = "\t" THEN <<"\\", "t">>
    ELSE <<character>>

\* The for loop of case TOKEN_STRING from character k (a C index) on.
RECURSIVE DumpStringFrom(_, _)
DumpStringFrom(string, k) ==
    IF ~(k < string.count) THEN <<>>
    ELSE DumpCharacter(ArrayAt(string, k), "\"") \o DumpStringFrom(string, k + 1)

\* The body of the for loop of dump_lexemes: what is written for a lexeme.
DumpLexeme(lexeme, program_name) ==
    DumpPosition(lexeme, program_name) \o
    CASE lexeme.type = "TOKEN_STRING" ->
            <<":", " ", "\"">> \o DumpStringFrom(lexeme.token.as_string, 0)
                \o <<"\"", "\n">>
      [] lexeme.type = "TOKEN_CHARACTER" ->
            <<":", " ", "'">> \o DumpCharacter(lexeme.token.as_character, "'")
                \o <<"'", "\n">>
      [] lexeme.type = "TOKEN_FLOAT" ->
            <<":", " ">> \o FormatFloat(lexeme.token.as_float) \o <<"\n">>
      [] lexeme.type = "TOKEN_ATOM" ->
            \* "%.*s" with count and elements: the characters as they are
            <<":", " ">> \o Occupied(lexeme.token.as_atom) \o <<"\n">>
      [] lexeme.type = "TOKEN_NEWLINE" -> <<"\n">>
      [] lexeme.type = "TOKEN_PARENTHESIS" ->
            <<":", " ", lexeme.token.as_parenthesis, "\n">>
      [] lexeme.type = "TOKEN_BRACKET" ->
            <<":", " ", lexeme.token.as_bracket, "\n">>

\* dump_lexemes from lexeme i (a C index) on: what is written to the stream.
RECURSIVE DumpLexemesFrom(_, _, _)
DumpLexemesFrom(lexemes, i, program_name) ==
    IF ~(i < lexemes.count) THEN <<>>
    ELSE DumpLexeme(ArrayAt(lexemes, i), program_name)
            \o DumpLexemesFrom(lexemes, i + 1, program_name)

\* main: dump_lexemes(stdout, &lexemes, SOURCE_FILE) on the lexemes
\* lex_program returned.
DumpLexemes ==
    /\ lex.pc = "returned"
    /\ lex' = [lex EXCEPT !.pc = "dumped",
                          !.stdout = DumpLexemesFrom(context.lexemes, 0, SOURCE_FILE)]
    /\ UNCHANGED <<program, stack, stack0, frames, status, heap, last, darray, file, reader, context>>

NextLex ==
    \/ LexNewline \/ LexParenthesis \/ LexBracket \/ LexWhitespace
    \/ LexDefault \/ LexTokenTooLarge
    \/ LexStringBegin \/ LexStringQuote \/ LexStringNewline
    \/ LexStringEscape \/ LexStringDefault \/ LexStringEnd
    \/ LexCharacterBegin \/ LexCharacterBody \/ LexCharacterEnd
    \/ LexFinish \/ DumpLexemes

----------------------------------------------------------------------------
(* The source texts lex_program is run on.                                 *)

\* The characters of the generated texts: a digit, letters (e of an
\* exponent, n and a of nan and of the escape \n), the delimiters and the
\* backslash.
Alphabet == {"1", "e", "n", "a", "(", "{", "\"", "'", "\\", " ", "\n"}

\* Longest generated text over Alphabet.
MaxLen == 3

\* Longest run of one character, above MAX_TOKEN_SIZE by this much.
MaxOverrun == 1

\* Every text over Alphabet of at most MaxLen characters.
Texts == UNION {[1..n -> Alphabet] : n \in 0..MaxLen}

\* Runs of a digit and of a letter around MAX_TOKEN_SIZE characters long.
LongRuns ==
    {[k \in 1..n |-> c] : n \in (MAX_TOKEN_SIZE - 1)..(MAX_TOKEN_SIZE + MaxOverrun),
                          c \in {"1", "a"}}

\* Longer texts: those of the specification's testable properties, the
\* forms of number strtod accepts, and literals followed by more text.
ExampleTexts ==
    { <<"\"", "a", "b", "c", "\\", "n", "d", "e", "f", "\"">>,
      <<" ", " ", "f", "o", "o">>,
      <<"\"", "a", "b", "c">>,
      <<"\"", "\\", "\"", "\\", "\\", "\\", "t", "\"">>,
      <<"\"", "a", "\"", " ", "\"", "b", "\"">>,
      <<"\"", "a", "\"", " ", "\"", "b">>,
      <<"\"", "\\", "a", "\"", " ", "b">>,
      <<"'", "a", "'", "b", " ", "c">>,
      <<"-", "1", ".", "5", "e", "+", "2">>,
      <<"1", "e", "9", "9", "9">>,
      <<"1", "e", "-", "9", "9", "9">>,
      <<"1", "e", "9", "9", "9", "a">>,
      <<"1", "e", "9", "9", "9", " ", "a">>,
      <<"n", "a", "n", "(", ")">>,
      <<"n", "a", "n", "(", "1", ")">>,
      <<"i", "n", "f">>,
      <<"a", "\t", "1", "}", ")">> }

Sources == Texts \cup LongRuns \cup ExampleTexts

InitLex ==
    /\ \E text \in Sources : context = InitialContext(text)
    /\ lex = InitialLex
    /\ program = ZeroArray
    /\ stack = ZeroArray
    /\ stack0 = ZeroArray
    /\ frames = <<>>
    /\ status = "idle"
    /\ heap = InitialHeap
    /\ last = IdleLast
    /\ darray = IdleArray
    /\ file = IdleFile
    /\ reader = IdleReader

SpecLex == InitLex /\ [][NextLex]_vars

----------------------------------------------------------------------------
(* Claims about the execution engine, checked under SpecExec.              *)

Terminated == status # "running"
AtNative == AtNode /\ Node.type = "FUNCTION_NATIVE"
AtLiteral == AtNode /\ Node.type = "FUNCTION_LITERAL"
\* The operands of a native about to run: a second from top, b on top.
OperandA == ArrayAt(stack, stack.count - 2)
OperandB == ArrayAt(stack, stack.count - 1)

\* C1: run by execute_functions on an empty stack, the program of main
\* (30, 10, native_pona, 20, native_ike) ends, by returning, with a stack of
\* exactly one element, the Number 20.
C1_MainLeavesTwenty ==
    (program = MainProgram /\ stack0 = ZeroArray /\ Terminated)
        => /\ status = "returned"
           /\ stack.count = 1
           /\ Occupied(stack) = <<Number(20)>>

C1_Witness ==
    /\ program = MainProgram
    /\ stack0 = ZeroArray
    /\ status = "returned"
    /\ last.op = "return"

\* C2: on a stack of at least 2 elements whose top two are Numbers a (second
\* from top) and b (top), native_pona leaves a + b and native_ike leaves
\* a - b as the new top, of Number kind, and the count decreases by 1.
C2_BinaryResult ==
    [][(/\ AtNative
        /\ stack.count >= 2
        /\ OperandA.type = "VALUE_NUMBER"
        /\ OperandB.type = "VALUE_NUMBER")
          => /\ status' = "running"
             /\ stack'.count = stack.count - 1
             /\ ArrayAt(stack', stack'.count - 1).type = "VALUE_NUMBER"
             /\ ArrayAt(stack', stack'.count - 1).as_number =
                   IF Node.as_native = NATIVE_PONA
                   THEN OperandA.as_number + OperandB.as_number
                   ELSE OperandA.as_number - OperandB.as_number]_vars

\* A native_ike has just returned normally with different operands: its
\* result is below the slot that still holds its old top b.
C2_Witness ==
    /\ last.op = NATIVE_IKE
    /\ status = "running"
    /\ last.accessed = {stack.count - 1, stack.count}
    /\ ArrayAt(stack, stack.count).as_number # 0
    /\ ArrayAt(stack, stack.count - 1).as_number # 0

\* C3: on a stack of fewer than 2 elements native_pona and native_ike end
\* with the stack-underflow error and leave the stack as it was; they read
\* or write no element, so none at an index below 0.
C3_Underflow ==
    [][(AtNative /\ stack.count < 2)
          => /\ status' = STACK_UNDERFLOW
             /\ stack' = stack
             /\ last'.accessed = {}
             /\ \A k \in last'.accessed : k >= 0]_vars

C3_Witness ==
    /\ status = STACK_UNDERFLOW
    /\ last.op \in {NATIVE_PONA, NATIVE_IKE}
    /\ stack.count = 1

\* C4 as claimed: on a stack that holds a non-Number element at any
\* position, native_pona and native_ike end with the type-mismatch error and
\* leave the stack unchanged.
C4_Original ==
    [][(AtNative /\ \E k \in 0..(stack.count - 1) :
                        ArrayAt(stack, k).type # "VALUE_NUMBER")
          => /\ status' = NON_NUMBER
             /\ stack' = stack]_vars

\* C4 as amended: on a stack of at least 2 elements whose top or second from
\* top element is not a Number, native_pona and native_ike end with the
\* type-mismatch error and leave the stack unchanged.
C4_TypeMismatch ==
    [][(/\ AtNative
        /\ stack.count >= 2
        /\ (OperandA.type # "VALUE_NUMBER" \/ OperandB.type # "VALUE_NUMBER"))
          => /\ status' = NON_NUMBER
             /\ stack' = stack]_vars

\* A native was aborted by the type assertion on b: a is a Number, b is not.
C4_Witness ==
    /\ status = NON_NUMBER
    /\ last.op \in {NATIVE_PONA, NATIVE_IKE}
    /\ stack.count >= 2
    /\ OperandA.type = "VALUE_NUMBER"
    /\ OperandB.type # "VALUE_NUMBER"

\* The Literal and Native leaves of a function tree, depth first and left to
\* right.
RECURSIVE Flatten(_), FlattenFrom(_, _)
Flatten(functions) == FlattenFrom(functions, 0)
FlattenFrom(functions, k) ==
    IF k >= functions.count THEN <<>>
    ELSE LET f == ArrayAt(functions, k)
         IN  (IF f.type = "FUNCTION_DEFINED" THEN Flatten(f.as_defined) ELSE <<f>>)
                \o FlattenFrom(functions, k + 1)

\* The leaves executed in order on stack s, up to the first that fails.
RECURSIVE RunLeaves(_, _)
RunLeaves(leaves, s) ==
    IF leaves = <<>> THEN [stack |-> s, status |-> "returned"]
    ELSE IF Head(leaves).type = "FUNCTION_LITERAL"
    THEN RunLeaves(Tail(leaves), ArrayAppend(s, Head(leaves).as_literal))
    ELSE LET r == CallNative(Head(leaves).as_native, s)
         IN  IF r.outcome = "ok" THEN RunLeaves(Tail(leaves), r.stack)
             ELSE [stack |-> r.stack, status |-> r.outcome]

\* C5: for every function tree and initial stack execute_functions ends with
\* the stack (and outcome) that executing the depth-first, left-to-right
\* flattening of the tree's Literal and Native leaves in order ends with.
C5_SameAsFlattened ==
    Terminated =>
        LET flat == RunLeaves(Flatten(program), stack0)
        IN  /\ status = flat.status
            /\ stack.count = flat.stack.count
            /\ Occupied(stack) = Occupied(flat.stack)

\* A run that returned after executing a Defined node with two children
\* that changed the stack.
C5_Witness ==
    /\ status = "returned"
    /\ \E k \in 0..(program.count - 1) :
          /\ ArrayAt(program, k).type = "FUNCTION_DEFINED"
          /\ ArrayAt(program, k).as_defined.count >= 2
    /\ Occupied(stack) # Occupied(stack0)

\* C6: executing a Literal node appends the literal's Value as the new top:
\* the count grows by 1 and every element already on the stack keeps its
\* index and value; no step of the execution (this one or a later native)
\* modifies the program or the storage its literals point to.
C6_LiteralPush ==
    [][/\ AtLiteral
          => /\ stack'.count = stack.count + 1
             /\ ArrayAt(stack', stack.count) = Node.as_literal
             /\ \A k \in 0..(stack.count - 1) :
                    ArrayAt(stack', k) = ArrayAt(stack, k)
       /\ program' = program
       /\ heap' = heap]_vars

\* A Literal was pushed on a stack that already held an element.
C6_Witness ==
    /\ last.op = "FUNCTION_LITERAL"
    /\ stack.count >= 2
    /\ last.accessed = {stack.count - 1}

----------------------------------------------------------------------------
(* Claims about the lexer, checked under SpecLex.                          *)

\* The text lex_program was given, and the lexemes appended so far.
SourceText == Occupied(context.program)
Lexemes == Occupied(context.lexemes)

\* lex_program has ended, by returning its lexemes or by exit(1).
LexEnded == lex.pc \in {"returned", "exit"}

\* Text t holds a character of the set.
Contains(t, characters) == \E k \in 1..Len(t) : t[k] \in characters

\* strtod converts text t and consumes all of it, and t neither starts nor
\* ends with white space.
AcceptedInFull(t) ==
    /\ Len(t) > 0
    /\ Strtod(t).end = Len(t)
    /\ ~IsSpace(t[1])
    /\ ~IsSpace(t[Len(t)])

\* lex_program returned exactly one lexeme: the Float strtod makes of t, at
\* line 1, column 0.
OneFloat(t) ==
    /\ lex.pc = "returned"
    /\ Lexemes = <<Lexeme("TOKEN_FLOAT", [as_float |-> Strtod(t).value], 1, 0)>>

\* C7 as claimed: for every text t that strtod accepts in full (no leading
\* or trailing white space), lex_program applied to t alone returns exactly
\* one token, a Float whose value is strtod's conversion of t, at line 1,
\* column 0.
C7_Original ==
    (LexEnded /\ AcceptedInFull(SourceText)) => OneFloat(SourceText)

\* C7 as amended: for every text t of at most MAX_TOKEN_SIZE bytes that
\* strtod accepts in full without a range error (no leading or trailing
\* white space) and that holds none of the characters lex_program has a case
\* for (newline, parentheses, braces, both quotes, space, tab), lex_program
\* applied to t alone returns exactly one token, a Float whose value is
\* strtod's conversion of t, at line 1, column 0.
C7_NumericText ==
    (/\ LexEnded
     /\ AcceptedInFull(SourceText)
     /\ ~Strtod(SourceText).erange
     /\ ~Contains(SourceText, Delimiters)
     /\ Len(SourceText) <= MAX_TOKEN_SIZE)
        => OneFloat(SourceText)

\* lex_program returned the single Float -150 for the text -1.5e+2.
C7_Witness ==
    /\ lex.pc = "returned"
    /\ SourceText = <<"-", "1", ".", "5", "e", "+", "2">>
    /\ Lexemes = <<Lexeme("TOKEN_FLOAT",
                          [as_float |-> [kind |-> "finite", sign |-> -1,
                                         digits |-> <<"1", "5">>, point |-> 3]],
                          1, 0)>>

\* strtod does not consume all of text t: the conversion is a parse failure.
FailsConversion(t) == Strtod(t).end # Len(t)

\* lex_program returned exactly one lexeme, an Atom holding text t.
OneAtom(t) ==
    /\ lex.pc = "returned"
    /\ context.lexemes.count = 1
    /\ Lexemes[1].type = "TOKEN_ATOM"
    /\ Occupied(Lexemes[1].token.as_atom) = t

\* C8 as claimed: for every text that fails numeric conversion and holds no
\* quote, parenthesis, space, tab or newline, lex_program applied to that
\* text alone returns exactly one token, an Atom whose payload is the text.
C8_Original ==
    (/\ LexEnded
     /\ FailsConversion(SourceText)
     /\ ~Contains(SourceText, {"\"", "'", "(", ")", " ", "\t", "\n"}))
        => OneAtom(SourceText)

\* C8 as amended: for every text of at most MAX_TOKEN_SIZE bytes that fails
\* numeric conversion (strtod does not consume all of it) and holds no
\* quote (double or single), parenthesis, brace, space, tab or newline,
\* lex_program applied to that text alone returns exactly one token, an Atom
\* whose payload is the text byte for byte.
C8_AtomText ==
    (/\ LexEnded
     /\ FailsConversion(SourceText)
     /\ ~Contains(SourceText, Delimiters)
     /\ Len(SourceText) <= MAX_TOKEN_SIZE)
        => OneAtom(SourceText)

\* lex_program returned the single Atom for a text that fills the token
\* buffer, and for a text that starts with a number.
C8_Witness ==
    /\ lex.pc = "returned"
    /\ \/ Len(SourceText) = MAX_TOKEN_SIZE
       \/ SourceText = <<"1", "e", "9", "9", "9", "a">>
    /\ OneAtom(SourceText)

\* The line and column of the character at C index i of text t: 1 plus the
\* newlines before it, and its distance from the last of them (from the
\* start of the text if there is none).
LineOf(t, i) == 1 + Cardinality({k \in 1..i : t[k] = "\n"})
ColumnOf(t, i) ==
    IF \E k \in 1..i : t[k] = "\n"
    THEN i - (CHOOSE k \in 1..i :
                /\ t[k] = "\n"
                /\ \A j \in (k + 1)..i : t[j] # "\n")
    ELSE i

\* The body of the string literal lex_string has just read to its end quote:
\* the characters between the opening quote, at opening_index, and the
\* closing quote, the character before program_index.
LiteralBody ==
    SubSeq(SourceText, lex.opening_index + 2, context.program_index - 1)

\* A body of ordinary characters (no quote, no backslash, no newline) and of
\* the escapes \" \\ \n \t, and the text it stands for.
RECURSIVE OrdinaryBody(_)
OrdinaryBody(body) ==
    IF body = <<>> THEN TRUE
    ELSE IF Head(body) = "\\"
    THEN /\ Len(body) >= 2
         /\ body[2] \in {"\"", "\\", "n", "t"}
         /\ OrdinaryBody(SubSeq(body, 3, Len(body)))
    ELSE Head(body) \notin {"\"", "\n"} /\ OrdinaryBody(Tail(body))

RECURSIVE ResolvedBody(_)
ResolvedBody(body) ==
    IF body = <<>> THEN <<>>
    ELSE IF Head(body) = "\\"
    THEN <<CASE body[2] = "n" -> "\n" [] body[2] = "t" -> "\t" [] OTHER -> body[2]>>
            \o ResolvedBody(SubSeq(body, 3, Len(body)))
    ELSE <<Head(body)>> \o ResolvedBody(Tail(body))

\* C9: for every terminated string literal whose body consists of ordinary
\* characters and the escapes \" \\ \n \t, lex_string appends exactly one
\* String lexeme, whose payload is the body with each escape replaced by
\* quote, backslash, newline and tab, and whose line and column are those of
\* the opening quote in the source.
C9_StringLiteral ==
    [][(/\ lex.pc = "lex_string"
        /\ lex'.pc = "lex_program"
        /\ OrdinaryBody(LiteralBody))
          => /\ context'.lexemes.count = context.lexemes.count + 1
             /\ LET lexeme == ArrayAt(context'.lexemes, context.lexemes.count)
                IN  /\ lexeme.type = "TOKEN_STRING"
                    /\ Occupied(lexeme.token.as_string) = ResolvedBody(LiteralBody)
                    /\ lexeme.line = LineOf(SourceText, lex.opening_index)
                    /\ lexeme.column = ColumnOf(SourceText, lex.opening_index)]_vars

\* The start position of the pending token.
PendingStart == <<context.multibyte_line, context.multibyte_column>>

\* C10: the line and column recorded for an Atom or Float are the lexer's
\* line and column at the moment the first character of the token was
\* accumulated: they are recorded with the first character, no later
\* character of the token changes them, and the flush that commits the
\* token copies them to the lexeme.
C10_StartPosition ==
    [][/\ (context.token_buffer.count = 0 /\ context'.token_buffer.count = 1)
            => PendingStart' = <<context.line, context.column>>
       /\ (/\ context.token_buffer.count > 0
           /\ context'.token_buffer.count >= context.token_buffer.count)
            => PendingStart' = PendingStart
       /\ \A k \in context.lexemes.count..(context'.lexemes.count - 1) :
            ArrayAt(context'.lexemes, k).type \in {"TOKEN_ATOM", "TOKEN_FLOAT"}
                => /\ k = context.lexemes.count
                   /\ context.token_buffer.count > 0
                   /\ ArrayAt(context'.lexemes, k).line = context.multibyte_line
                   /\ ArrayAt(context'.lexemes, k).column = context.multibyte_column
                   /\ ArrayAt(context'.lexemes, k).line # SIZE_MAX
                   /\ ArrayAt(context'.lexemes, k).column # SIZE_MAX]_vars

\* lex_program returned, for two spaces and foo, the Atom foo at line 1,
\* column 2.
C10_Witness ==
    /\ lex.pc = "returned"
    /\ SourceText = <<" ", " ", "f", "o", "o">>
    /\ context.lexemes.count = 1
    /\ Lexemes[1].type = "TOKEN_ATOM"
    /\ Occupied(Lexemes[1].token.as_atom) = <<"f", "o", "o">>
    /\ Lexemes[1].line = 1
    /\ Lexemes[1].column = 2

\* lex_string is at the end of the input without having met the closing
\* quote, or at a backslash that is the last character of the input.
InputEndsInString ==
    /\ lex.pc = "lex_string"
    /\ ~lex.found_end_quote
    /\ \/ context.program_index >= context.program.count
       \/ /\ CurrentCharacter = "\\"
          /\ context.program_index + 1 >= context.program.count

\* C11: when the input ends before the closing quote of a string literal
\* (also right after a backslash inside it), lex_string reports Unterminated
\* string at the line and column of the literal's opening quote in the
\* source and the process exits: no lexemes are returned.
C11_UnterminatedString ==
    [][InputEndsInString
          => /\ lex'.pc = "exit"
             /\ lex'.stderr =
                    Append(lex.stderr,
                           Diagnostic(LineOf(SourceText, lex.opening_index),
                                      ColumnOf(SourceText, lex.opening_index),
                                      "Unterminated string"))]_vars

\* lex_string is at a backslash followed by a character that is none of
\* quote, backslash, n and t.
UnknownEscapeMet ==
    /\ lex.pc = "lex_string"
    /\ ~lex.found_end_quote
    /\ context.program_index + 1 < context.program.count
    /\ CurrentCharacter = "\\"
    /\ ArrayAt(context.program, context.program_index + 1)
            \notin {"\"", "\\", "n", "t"}

PendingText == Occupied(context.token_buffer)
Flushes ==
    /\ lex.pc = "lex_program"
    /\ context.token_buffer.count > 0
    /\ context'.token_buffer.count = 0

\* strtod reads the pending accumulation in full and reports a range error.
PendingOutOfRange ==
    /\ Strtod(PendingText).end = Len(PendingText)
    /\ Strtod(PendingText).erange

\* The error try_append_multibyte_lexeme reports for it.
RangeDiagnostic ==
    Diagnostic(context.multibyte_line, context.multibyte_column,
               IF Strtod(PendingText).value.kind = "inf"
               THEN "Float conversion results in overflow"
               ELSE "Float conversion results in underflow")

C14_EmptyFlushNoOp ==
    [][/\ context.token_buffer.count = 0
          => /\ TryAppendMultibyteLexeme(context) = context
             /\ TryAppendDiagnostics(context) = <<>>
       /\ TryAppendMultibyteLexeme(TryAppendMultibyteLexeme(context))
            = TryAppendMultibyteLexeme(context)
       /\ TryAppendDiagnostics(TryAppendMultibyteLexeme(context)) = <<>>
       /\ (/\ AtCharacter
           /\ context.token_buffer.count = 0
           /\ CurrentCharacter \in {" ", "\t"})
          => /\ context' = [context EXCEPT !.column = @ + 1,
                                            !.program_index = @ + 1]
             /\ lex' = Examine(lex, context.program_index)]_vars

\* For the text a, space, ( the flush at the space committed the Atom and the
\* flush at the parenthesis found nothing pending: two lexemes, no more.
C14_Witness ==
    /\ lex.pc = "lex_program"
    /\ SourceText = <<"a", " ", "(">>
    /\ context.program_index = 3
    /\ context.lexemes.count = 2
    /\ Lexemes[1].type = "TOKEN_ATOM"
    /\ Lexemes[2].type = "TOKEN_PARENTHESIS"
    /\ context.multibyte_line = SIZE_MAX
    /\ ~context.failed

\* The pending start position is set: neither part is the SIZE_MAX sentinel.
StartSet ==
    /\ context.multibyte_line # SIZE_MAX
    /\ context.multibyte_column # SIZE_MAX
StartUnset ==
    /\ context.multibyte_line = SIZE_MAX
    /\ context.multibyte_column = SIZE_MAX

\* The lexer is inside lex_string or lex_character_literal.
InSubLexer ==
    lex.pc \in {"lex_string", "lex_character_literal", "lex_character_literal_end"}

\* C15 as claimed: in every state of the tokenizer after a character was
\* consumed, by the main loop or by a sub-lexer, the pending-token buffer is
\* non-empty if and only if the pending start position is set.
C15_Original ==
    (lex.pc = "lex_program" \/ InSubLexer)
        => /\ context.token_buffer.count > 0 <=> StartSet
           /\ StartSet \/ StartUnset

\* C15 as amended: in every state of the main loop of lex_program the
\* pending-token buffer is non-empty if and only if the pending start
\* position is set; inside lex_string and lex_character_literal the buffer
\* is empty and the start position is set, to the start of the literal.
C15_BufferIffStart ==
    /\ lex.pc = "lex_program"
        => /\ context.token_buffer.count > 0 <=> StartSet
           /\ StartSet \/ StartUnset
    /\ InSubLexer
        => /\ context.token_buffer.count = 0
           /\ StartSet

\* The main loop is accumulating a token after a literal was lexed: the
\* start position was set by the sub-lexer, unset at its end, and set again.
C15_Witness ==
    /\ lex.pc = "lex_program"
    /\ context.token_buffer.count > 0
    /\ StartSet
    /\ context.lexemes.count >= 1
    /\ Lexemes[1].type \in {"TOKEN_STRING", "TOKEN_CHARACTER"}

\* The main loop of lex_program has reached the end of the input.
AtEndOfInput ==
    /\ lex.pc = "lex_program"
    /\ context.program_index >= context.program.count

\* C16: if the input ends while the pending accumulation is non-empty,
\* lex_program flushes it before it returns: the accumulated text is the
\* last lexeme, a Float (the number the whole text converts to) or an Atom
\* (the text, character for character), at its recorded start position, and
\* a sequence that is returned ends with it.
C16_FinalFlush ==
    [][(AtEndOfInput /\ context.token_buffer.count > 0)
          => /\ lex'.pc \in {"returned", "exit"}
             /\ lex'.pc = "returned" <=> ~context'.failed
             /\ context'.lexemes.count = context.lexemes.count + 1
             /\ \A k \in 0..(context.lexemes.count - 1) :
                    ArrayAt(context'.lexemes, k) = ArrayAt(context.lexemes, k)
             /\ LET lexeme == ArrayAt(context'.lexemes, context'.lexemes.count - 1)
                IN  /\ lexeme.line = context.multibyte_line
                    /\ lexeme.column = context.multibyte_column
                    /\ \/ /\ lexeme.type = "TOKEN_ATOM"
                          /\ Occupied(lexeme.token.as_atom) = PendingText
                       \/ /\ lexeme.type = "TOKEN_FLOAT"
                          /\ Strtod(PendingText).end = Len(PendingText)
                          /\ lexeme.token.as_float = Strtod(PendingText).value]_vars

\* lex_program returned a sequence of at least two lexemes for a text that
\* ends in a character of a token: the last lexeme is that token.
C16_Witness ==
    /\ lex.pc = "returned"
    /\ Len(SourceText) >= 2
    /\ SourceText[Len(SourceText)] \notin Delimiters
    /\ context.lexemes.count >= 2
    /\ Lexemes[Len(Lexemes)].type \in {"TOKEN_ATOM", "TOKEN_FLOAT"}
    /\ Lexemes[Len(Lexemes)].column = Len(SourceText) - 1

\* The main loop is at a character it has no case for.
AtTokenCharacter == AtCharacter /\ CurrentCharacter \notin Delimiters

\* C17: the pending accumulation never holds more than MAX_TOKEN_SIZE
\* bytes.  Below that size a character without a case is appended to it; at
\* that size it is a fatal error, reported at the character's position, and
\* nothing is appended or cut.  A text of exactly MAX_TOKEN_SIZE such
\* characters ends as one lexeme.
C17_TokenSize ==
    [][/\ context.token_buffer.count <= MAX_TOKEN_SIZE
       /\ context'.token_buffer.count <= MAX_TOKEN_SIZE
       /\ (AtTokenCharacter /\ context.token_buffer.count < MAX_TOKEN_SIZE)
          => /\ context'.token_buffer.count = context.token_buffer.count + 1
             /\ Occupied(context'.token_buffer) =
                    Append(PendingText, CurrentCharacter)
             /\ context'.token_buffer.capacity = MAX_TOKEN_SIZE
             /\ lex' = Examine(lex, context.program_index)
       /\ (AtTokenCharacter /\ context.token_buffer.count = MAX_TOKEN_SIZE)
          => /\ lex'.pc = "exit"
             /\ lex'.stderr =
                    Append(lex.stderr,
                           Diagnostic(context.line, context.column,
                                "Encountered token larger than the maximum allowed size"))
             /\ context' = context
       /\ (/\ AtEndOfInput
           /\ Len(SourceText) = MAX_TOKEN_SIZE
           /\ ~Contains(SourceText, Delimiters))
          => /\ PendingText = SourceText
             /\ context'.lexemes.count = 1
             /\ lex'.pc = "returned" <=> ~context'.failed]_vars

\* The 257th character of a run ended the pass with the fatal error, at
\* column 256, with the 256 characters before it still pending.
C17_Witness ==
    /\ lex.pc = "exit"
    /\ lex.stderr =
         <<Diagnostic(1, MAX_TOKEN_SIZE,
                      "Encountered token larger than the maximum allowed size")>>
    /\ context.token_buffer.count = MAX_TOKEN_SIZE
    /\ context.lexemes.count = 0

\* The number of newline characters of text t, from its character i on, that
\* are not inside a string literal; inside tells whether character i is.  In
\* a literal a backslash takes the next character with it.
RECURSIVE NewlinesOutsideStrings(_, _, _)
NewlinesOutsideStrings(t, i, inside) ==
    IF i > Len(t) THEN 0
    ELSE IF inside
    THEN IF t[i] = "\\" THEN NewlinesOutsideStrings(t, i + 2, TRUE)
         ELSE NewlinesOutsideStrings(t, i + 1, t[i] # "\"")
    ELSE IF t[i] = "\"" THEN NewlinesOutsideStrings(t, i + 1, TRUE)
    ELSE (IF t[i] = "\n" THEN 1 ELSE 0) + NewlinesOutsideStrings(t, i + 1, FALSE)

\* The number of Newline lexemes of a lexeme array.
NewlineLexemes(lexemes) ==
    Cardinality({k \in 0..(lexemes.count - 1) :
                    ArrayAt(lexemes, k).type = "TOKEN_NEWLINE"})

\* C18: at a newline character lex_program flushes the pending accumulation,
\* then appends exactly one Newline lexeme carrying the line and column
\* current before the newline, then increments line and sets column to 0;
\* and when a pass without error returns (here for a source without
\* character literals), the number of Newline lexemes is the number of
\* newline characters of the source that are not inside a string literal.
C18_Newlines ==
    [][/\ (AtCharacter /\ CurrentCharacter = "\n")
          => /\ context'.lexemes =
                    ArrayAppend(TryAppendMultibyteLexeme(context).lexemes,
                                Lexeme("TOKEN_NEWLINE", [as_newline |-> "\n"],
                                       context.line, context.column))
             /\ context'.token_buffer.count = 0
             /\ context'.line = context.line + 1
             /\ context'.column = 0
       /\ (/\ lex'.pc = "returned"
           /\ Contains(SourceText, {"\n"})
           /\ ~Contains(SourceText, {"'"}))
          => NewlineLexemes(context'.lexemes) =
                NewlinesOutsideStrings(SourceText, 1, FALSE)]_vars

\* typedef enum { ... } TokenType.
TokenType ==
    {"TOKEN_STRING", "TOKEN_CHARACTER", "TOKEN_FLOAT", "TOKEN_ATOM",
     "TOKEN_NEWLINE", "TOKEN_PARENTHESIS", "TOKEN_BRACKET"}

\* C19 as claimed: every lexeme lex_program appends has a kind among String,
\* Integer, Float, Atom, Newline and Parenthesis, and the payload of a
\* Parenthesis is ( or ).
C19_Original ==
    \A k \in 0..(context.lexemes.count - 1) :
        LET lexeme == ArrayAt(context.lexemes, k)
        IN  /\ lexeme.type \in {"TOKEN_STRING", "TOKEN_INTEGER", "TOKEN_FLOAT",
                                "TOKEN_ATOM", "TOKEN_NEWLINE", "TOKEN_PARENTHESIS"}
            /\ lexeme.type = "TOKEN_PARENTHESIS"
                => lexeme.token.as_parenthesis \in {"(", ")"}

\* C19 as amended: every lexeme lex_program appends has a kind among String,
\* Character, Float, Atom, Newline, Parenthesis and Bracket; the payload of
\* a Parenthesis is ( or ) and the payload of a Bracket is { or }.
C19_TokenKinds ==
    \A k \in 0..(context.lexemes.count - 1) :
        LET lexeme == ArrayAt(context.lexemes, k)
        IN  /\ lexeme.type \in TokenType
            /\ lexeme.type = "TOKEN_PARENTHESIS"
                => lexeme.token = [as_parenthesis |-> "("]
                    \/ lexeme.token = [as_parenthesis |-> ")"]
            /\ lexeme.type = "TOKEN_BRACKET"
                => lexeme.token = [as_bracket |-> "{"]
                    \/ lexeme.token = [as_bracket |-> "}"]

\* lex_program returned a sequence with a Bracket and a Parenthesis.
C19_Witness ==
    /\ lex.pc = "returned"
    /\ \E k \in 1..Len(Lexemes) : Lexemes[k].type = "TOKEN_BRACKET"
    /\ \E k \in 1..Len(Lexemes) : Lexemes[k].type = "TOKEN_PARENTHESIS"

\* C20: for every lexeme lex_program returns, the recorded line is 1 plus
\* the number of newline characters before the lexeme's first character in
\* the source, and the recorded column is the number of characters between
\* the last newline before it (or the start of the input) and that first
\* character, also for a lexeme that follows a string literal on its line
\* (stated here for the sources without character literals).
C20_TruePositions ==
    (lex.pc = "returned" /\ ~Contains(SourceText, {"'"}))
        => /\ Len(lex.starts) = context.lexemes.count
           /\ \A k \in 1..Len(Lexemes) :
                /\ Lexemes[k].line = LineOf(SourceText, lex.starts[k])
                /\ Lexemes[k].column = ColumnOf(SourceText, lex.starts[k])

\* An error was detected in the pass: a diagnostic was written to stderr
\* (unknown escape, overflow, underflow, unterminated literal, token too
\* large) or the failed flag is set.
ErrorDetected == lex.stderr # <<>> \/ context.failed

\* C21: lex_program returns its lexemes only if no error was detected
\* anywhere in the pass; once an error was detected the pass cannot stop
\* short of exit(1): it goes on until it exits, and what was appended to
\* the lexemes is not returned.
C21_NoPartialResult ==
    /\ lex.pc = "returned" => ~ErrorDetected
    /\ (ErrorDetected /\ lex.pc # "exit") => ENABLED NextLex
    /\ lex.pc = "exit" => ErrorDetected /\ ~ENABLED NextLex

\* The pass ended in exit(1) with the failed flag set after lexemes were
\* appended: they are not returned.
C21_Witness ==
    /\ lex.pc = "exit"
    /\ context.failed
    /\ context.lexemes.count >= 2
    /\ Len(lex.stderr) >= 1

\* The places of stdout where a line ends, and the k-th line of stdout
\* without the newline that ends it.
LineEnds == {i \in 1..Len(lex.stdout) : lex.stdout[i] = "\n"}
LineEnd(k) ==
    IF k = 0 THEN 0
    ELSE CHOOSE i \in LineEnds : Cardinality({j \in LineEnds : j <= i}) = k
DumpedLine(k) == SubSeq(lex.stdout, LineEnd(k - 1) + 1, LineEnd(k) - 1)

\* The characters the dump is to re-escape, and text p is payload q with
\* each of them written as a backslash and " \ n or t, the other characters
\* as they are.
Escaped == {"\"", "\\", "\n", "\t"}
EscapeLetter(c) == CASE c = "\n" -> "n" [] c = "\t" -> "t" [] OTHER -> c
EscapedBefore(q, k) == Cardinality({j \in 1..(k - 1) : q[j] \in Escaped})
IsReEscaped(p, q) ==
    /\ Len(p) = Len(q) + EscapedBefore(q, Len(q) + 1)
    /\ \A k \in 1..Len(q) :
         LET place == k + EscapedBefore(q, k)
         IN  IF q[k] \in Escaped
             THEN p[place] = "\\" /\ p[place + 1] = EscapeLetter(q[k])
             ELSE p[place] = q[k]

\* C22: dump_lexemes writes one line for each lexeme, in the order of the
\* sequence, of the form name(line:column): KIND[: payload], and in the
\* payload of a String (written between double quotes) and of an Atom each
\* quote, backslash, newline and tab is written re-escaped, so that no raw
\* backslash stands in the dumped payload.
C22_DumpReEscapes ==
    lex.pc = "dumped"
        => /\ Cardinality(LineEnds) = context.lexemes.count
           /\ \A k \in 1..Len(Lexemes) :
                LET lexeme == Lexemes[k]
                    position == DumpPosition(lexeme, SOURCE_FILE)
                    line == DumpedLine(k)
                    rest == SubSeq(line, Len(position) + 1, Len(line))
                IN  /\ Len(line) >= Len(position)
                    /\ SubSeq(line, 1, Len(position)) = position
                    /\ lexeme.type = "TOKEN_NEWLINE" => rest = <<>>
                    /\ lexeme.type # "TOKEN_NEWLINE"
                        => Len(rest) >= 3 /\ SubSeq(rest, 1, 2) = <<":", " ">>
                    /\ lexeme.type = "TOKEN_STRING"
                        => /\ Len(rest) >= 4
                           /\ rest[3] = "\"" /\ rest[Len(rest)] = "\""
                           /\ IsReEscaped(SubSeq(rest, 4, Len(rest) - 1),
                                          Occupied(lexeme.token.as_string))
                    /\ lexeme.type = "TOKEN_ATOM"
                        => IsReEscaped(SubSeq(rest, 3, Len(rest)),
                                       Occupied(lexeme.token.as_atom))

\* lex_program is running: in its main loop or in one of the sub-lexers.
LexRunning ==
    lex.pc \in {"lex_program", "lex_string", "lex_character_literal",
                "lex_character_literal_end"}

\* C23: lex_program terminates on every source text.  The cursor
\* program_index never passes the end of the text by more than one, and
\* every step of the main loop, of lex_string and of lex_character_literal
\* either moves the cursor forward or ends the pass, by returning or by
\* exit(1); so a pass over a text of count characters ends after at most
\* count + 2 steps.
C23_Terminates ==
    /\ [](LexRunning => context.program_index <= context.program.count + 1)
    /\ [][LexRunning => \/ /\ LexRunning'
                           /\ context'.program_index > context.program_index
                        \/ lex'.pc \in {"returned", "exit"}]_vars

\* A pass over a text of at least three characters went through lex_string
\* and the main loop and returned.
C23_Witness ==
    /\ lex.pc = "returned"
    /\ Len(SourceText) >= 3
    /\ \E k \in 1..Len(Lexemes) : Lexemes[k].type = "TOKEN_STRING"
    /\ \E k \in 1..Len(Lexemes) : Lexemes[k].type # "TOKEN_STRING"

----------------------------------------------------------------------------
(* array.h: array_resize, called through sstring_resize on arrays of char.  *)

\* Largest capacity of a generated array.
MaxCapacity == 3

\* The elements the generated arrays hold.
ArrayElements == {"a", "b", "c"}

\* The arrays array_resize is called on: count elements written, the other
\* slots of the block allocated and never written.
ArraysOfCapacity(capacity) ==
    UNION {{[elements |-> [k \in 1..capacity |->
                              IF k <= count THEN written[k] ELSE UninitChar],
             count |-> count,
             capacity |-> capacity] : written \in [1..count -> ArrayElements]}
           : count \in 0..capacity}
Arrays == UNION {ArraysOfCapacity(capacity) : capacity \in 0..MaxCapacity}

\* The sizes asked for: every size up to one above the largest capacity.
Sizes == 0..(MaxCapacity + 1)

\* array_reallocate: realloc(elements, array_byte_size(array)) with a byte
\* size of 0.  The C library may answer realloc(pointer, 0) with NULL (glibc
\* frees the block and does) or with a block of no bytes.
ReallocOfNoBytes(array) == 0 = array.capacity

\* array_reallocate: what it writes to stderr before exit(1) when realloc
\* answered NULL.
UNABLE_TO_REALLOCATE == "Error: Unable to reallocate dynamic array; buy more RAM lol"

InitResize ==
    /\ darray \in Arrays
    /\ status = "running"
    /\ last = [op |-> "none", size |-> 0]
    /\ program = ZeroArray
    /\ stack = ZeroArray
    /\ stack0 = ZeroArray
    /\ frames = <<>>
    /\ heap = InitialHeap
    /\ context = IdleContext
    /\ lex = IdleLex
    /\ file = IdleFile
    /\ reader = IdleReader

\* sstring_resize(&darray, size, realloc), which is array_resize on an
\* array of char, where realloc gives a block.
ArrayResizeCall ==
    /\ status = "running"
    /\ \E size \in Sizes :
        /\ darray' = SstringResize(darray, size)
        /\ last' = [op |-> "array_resize", size |-> size]
    /\ UNCHANGED <<program, stack, stack0, frames, status, heap, context, lex,
                   file, reader>>

\* array_resize(&darray, size, realloc) where realloc answers NULL for a
\* byte size of 0: count and capacity are set, elements is NULL, and
\* array_reallocate reports and calls exit(1).
ArrayResizeNull ==
    /\ status = "running"
    /\ \E size \in Sizes :
        /\ size # darray.capacity
        /\ ReallocOfNoBytes(SstringResize(darray, size))
        /\ darray' = SstringResize(darray, size)
        /\ last' = [op |-> "array_resize", size |-> size]
    /\ status' = UNABLE_TO_REALLOCATE
    /\ UNCHANGED <<program, stack, stack0, frames, heap, context, lex,
                   file, reader>>

NextResize == ArrayResizeCall \/ ArrayResizeNull

SpecResize == InitResize /\ [][NextResize]_vars

\* C24: array_resize(array, size) returns and has no effect on elements,
\* count or capacity when the requested size equals the array's current
\* size (its capacity); when the requested size is smaller than the current
\* count the array is truncated to exactly its first size elements
\* (count = size), and otherwise count and the existing elements are
\* unchanged while capacity becomes size.
C24_ResizeContract ==
    [][last'.op = "array_resize"
        => /\ status' = "running"
           /\ last'.size = darray.capacity => darray' = darray
           /\ last'.size < darray.count
                => /\ darray'.count = last'.size
                   /\ Occupied(darray') = SubSeq(Occupied(darray), 1, last'.size)
           /\ (last'.size # darray.capacity /\ ~(last'.size < darray.count))
                => /\ darray'.count = darray.count
                   /\ Occupied(darray') = Occupied(darray)
                   /\ darray'.capacity = last'.size]_vars

----------------------------------------------------------------------------
(* sized-string.h: sstring_read_file, one step per iteration of its loop.  *)

\* Longest generated stream, and largest generated chunk_size.
MaxFileLen == 3
MaxChunk == 2

\* The bytes of the generated streams.
FileBytes == {"a", "b"}

\* The streams: every sequence of bytes up to MaxFileLen long.
Files == UNION {[1..n -> FileBytes] : n \in 0..MaxFileLen}

\* Most iterations of the loop the model follows: enough for every stream
\* read one byte at a time, and two more.
MaxReads == MaxFileLen + 3

\* FILE* file at its beginning: the bytes, the read position, and the
\* end-of-file and error indicators feof and ferror test.
OpenFile(bytes) ==
    [bytes |-> bytes, position |-> 0, eof |-> FALSE, error |-> FALSE]

\* sstring_t contents = {0}, with chunk_size and the number of iterations of
\* the loop begun so far.
InitialReader(chunk_size) ==
    [pc |-> "loop", chunk_size |-> chunk_size, contents |-> ZeroArray, reads |-> 0]

InitReadFile ==
    /\ \E bytes \in Files : file = OpenFile(bytes)
    /\ \E chunk_size \in 0..MaxChunk : reader = InitialReader(chunk_size)
    /\ status = "running"
    /\ last = IdleLast
    /\ darray = IdleArray
    /\ program = ZeroArray
    /\ stack = ZeroArray
    /\ stack0 = ZeroArray
    /\ frames = <<>>
    /\ heap = InitialHeap
    /\ context = IdleContext
    /\ lex = IdleLex

\* while (0 == feof(file) && 0 == ferror(file))
ReadLoopRuns ==
    /\ reader.pc = "loop"
    /\ ~file.eof
    /\ ~file.error
    /\ reader.reads < MaxReads

\* The bytes of the stream not read yet.
Remaining == Len(file.bytes) - file.position

\* contents after fread wrote bytes_read bytes of the stream at
\* write_location, slot offset (a C index) of the expanded block, and
\* contents.count += bytes_read.
ReadInto(expanded, offset, bytes_read) ==
    [expanded EXCEPT
        !.elements = [k \in 1..Len(expanded.elements) |->
                        IF k > offset /\ k <= offset + bytes_read
                        THEN file.bytes[file.position + (k - offset)]
                        ELSE expanded.elements[k]],
        !.count = @ + bytes_read]

\* An iteration of the loop with write_location = contents.elements, the
\* start of the block.
ReadChunkAtStart ==
    /\ ReadLoopRuns
    /\ LET expanded == SstringExpand(reader.contents, reader.chunk_size)
           bytes_read == IF reader.chunk_size <= Remaining
                         THEN reader.chunk_size ELSE Remaining
       IN  /\ reader' = [reader EXCEPT
                            !.contents = ReadInto(expanded, 0, bytes_read),
                            !.reads = @ + 1]
           /\ file' = [file EXCEPT !.position = @ + bytes_read,
                                   !.eof = bytes_read < reader.chunk_size]
    /\ UNCHANGED <<program, stack, stack0, frames, status, heap, last, darray,
                   context, lex>>

\* An iteration of the loop: sstring_expand by chunk_size, then fread of up
\* to chunk_size bytes to contents.elements + contents.count.  fread gives
\* fewer bytes than asked for only at the end of the stream, and then sets
\* the end-of-file indicator; asked for 0 bytes it gives 0 and sets nothing.
ReadChunk ==
    /\ ReadLoopRuns
    /\ LET expanded == SstringExpand(reader.contents, reader.chunk_size)
           bytes_read == IF reader.chunk_size <= Remaining
                         THEN reader.chunk_size ELSE Remaining
       IN  /\ reader' = [reader EXCEPT
                            !.contents = ReadInto(expanded, expanded.count, bytes_read),
                            !.reads = @ + 1]
           /\ file' = [file EXCEPT !.position = @ + bytes_read,
                                   !.eof = bytes_read < reader.chunk_size]
    /\ UNCHANGED <<program, stack, stack0, frames, status, heap, last, darray,
                   context, lex>>

\* An iteration of the loop in which fread fails: it gives some of the bytes
\* it was asked for, or none, and sets the error indicator.
ReadChunkError ==
    /\ ReadLoopRuns
    /\ reader.chunk_size > 0
    /\ LET expanded == SstringExpand(reader.contents, reader.chunk_size)
           available == IF reader.chunk_size <= Remaining
                        THEN reader.chunk_size ELSE Remaining
       IN  \E bytes_read \in 0..available :
            /\ bytes_read < reader.chunk_size
            /\ reader' = [reader EXCEPT
                            !.contents = ReadInto(expanded, expanded.count, bytes_read),
                            !.reads = @ + 1]
            /\ file' = [file EXCEPT !.position = @ + bytes_read, !.error = TRUE]
    /\ UNCHANGED <<program, stack, stack0, frames, status, heap, last, darray,
                   context, lex>>

\* An iteration of the loop in which sstring_expand asks realloc for 0 bytes
\* and is answered NULL: array_reallocate reports and calls exit(1).
ReadChunkNull ==
    /\ ReadLoopRuns
    /\ ReallocOfNoBytes(SstringExpand(reader.contents, reader.chunk_size))
    /\ reader' = [reader EXCEPT !.pc = "exit", !.reads = @ + 1]
    /\ status' = UNABLE_TO_REALLOCATE
    /\ UNCHANGED <<program, stack, stack0, frames, heap, last, darray, file,
                   context, lex>>

\* The loop has ended: return contents.
ReadReturn ==
    /\ reader.pc = "loop"
    /\ file.eof \/ file.error
    /\ reader' = [reader EXCEPT !.pc = "returned"]
    /\ UNCHANGED <<program, stack, stack0, frames, status, heap, last, darray,
                   file, context, lex>>

NextReadFile == ReadChunk \/ ReadChunkError \/ ReadChunkNull \/ ReadReturn

SpecReadFile == InitReadFile /\ [][NextReadFile]_vars

----------------------------------------------------------------------------
(* Further claims about the execution engine, checked under SpecExec.      *)

\* C26: a native_pona or native_ike that succeeds changes only the slot at
\* index count - 2 and the count: every other slot of the block, so every
\* element below count - 2, keeps its kind and value, the capacity and the
\* nested storage are as they were, and the elements of the stack afterwards
\* are those below the new count, count - 1.
C26_NativeFrame ==
    [][(AtNative /\ status' = "running")
          => /\ stack'.count = stack.count - 1
             /\ stack'.capacity = stack.capacity
             /\ Len(stack'.elements) = Len(stack.elements)
             /\ \A k \in 0..(stack.capacity - 1) :
                    k # stack.count - 2 => ArrayAt(stack', k) = ArrayAt(stack, k)
             /\ \A k \in 0..(stack.count - 3) :
                    /\ ArrayAt(stack', k).type = ArrayAt(stack, k).type
                    /\ ArrayAt(stack', k) = ArrayAt(stack, k)
             /\ Len(Occupied(stack')) = stack.count - 1
             /\ heap' = heap]_vars

\* A native has just succeeded on a stack of three elements: one element
\* lies below the slot it wrote.
C26_Witness ==
    /\ last.op \in {NATIVE_PONA, NATIVE_IKE}
    /\ status = "running"
    /\ stack.count = 2
    /\ last.accessed = {1, 2}

\* The Array values among the elements of the stack, by index.
ArraysOnStack ==
    {k \in 0..(stack.count - 1) : ArrayAt(stack, k).type = "VALUE_ARRAY"}

\* C27: execution keeps the ownership of Array payloads exclusive: the
\* nested storage of an Array value on the stack is neither the storage of
\* the literal it was pushed from nor the storage of another stack value,
\* however often Literal nodes holding an Array were executed.
C27_ExclusiveOwnership ==
    \A k \in ArraysOnStack :
        /\ ArrayAt(stack, k).as_array.elements # LiteralArrayAddress
        /\ \A j \in ArraysOnStack :
              j # k => ArrayAt(stack, j).as_array.elements
                          # ArrayAt(stack, k).as_array.elements

\* The number of Literal and Native leaves among the first i nodes of a
\* function array, nested ones included.
LeavesBefore(functions, i) == Len(Flatten([functions EXCEPT !.count = i]))

\* The number of leaves behind the place the activations are at: for each
\* activation, the leaves of the nodes its loop has gone past.
RECURSIVE LeavesDone(_)
LeavesDone(fs) ==
    IF fs = <<>> THEN 0
    ELSE LeavesBefore(fs[Len(fs)].functions, fs[Len(fs)].i)
            + LeavesDone(SubSeq(fs, 1, Len(fs) - 1))

\* The steps a function array takes to execute: one for a leaf, and for a
\* Defined node one to enter it, those of its nodes and one to return.
RECURSIVE StepsOf(_, _)
StepsOf(functions, i) ==
    IF i = 0 THEN 0
    ELSE LET f == ArrayAt(functions, i - 1)
         IN  StepsOf(functions, i - 1)
                + (IF f.type = "FUNCTION_DEFINED"
                   THEN 2 + StepsOf(f.as_defined, f.as_defined.count)
                   ELSE 1)

\* The steps taken to reach the place the activations are at.
RECURSIVE StepsDone(_)
StepsDone(fs) ==
    IF fs = <<>> THEN 0
    ELSE StepsOf(fs[Len(fs)].functions, fs[Len(fs)].i) + 1
            + StepsDone(SubSeq(fs, 1, Len(fs) - 1))

\* The number of leaves of a type in the tree.
LeavesOfType(type) ==
    Cardinality({k \in 1..Len(Flatten(program)) : Flatten(program)[k].type = type})

\* C28: execute_functions terminates for every function tree whose natives
\* meet their preconditions, having executed every Literal and Native leaf
\* exactly once.  Every step takes the run one step further through the
\* tree, whose steps are counted by StepsOf; a step that executes a leaf
\* executes the next leaf of the tree in depth-first order and no other step
\* passes a leaf; and when the run returns every leaf is behind it and the
\* stack count is the initial count plus the number of Literal leaves minus
\* the number of Native leaves.
C28_ExecutesEachLeafOnce ==
    [][(status = "running" /\ status' \in {"running", "returned"})
        => /\ frames' # <<>>
              => /\ StepsDone(frames') = StepsDone(frames) + 1
                 /\ StepsDone(frames') <= StepsOf(program, program.count) + 1
           /\ IF AtLiteral \/ AtNative
              THEN /\ Node = Flatten(program)[LeavesDone(frames) + 1]
                   /\ LeavesDone(frames') = LeavesDone(frames) + 1
              ELSE frames' # <<>> => LeavesDone(frames') = LeavesDone(frames)
           /\ status' = "returned"
              => /\ LeavesDone(frames) = Len(Flatten(program))
                 /\ stack'.count = stack0.count + LeavesOfType("FUNCTION_LITERAL")
                                        - LeavesOfType("FUNCTION_NATIVE")]_vars

\* A run over a tree with a Defined node, a Literal leaf and a Native leaf
\* returned: the stack holds one element as before.
C28_Witness ==
    /\ status = "returned"
    /\ LeavesOfType("FUNCTION_LITERAL") = 1
    /\ LeavesOfType("FUNCTION_NATIVE") = 1
    /\ \E k \in 0..(program.count - 1) :
          ArrayAt(program, k).type = "FUNCTION_DEFINED"
    /\ stack0.count = 1
    /\ stack.count = 1

----------------------------------------------------------------------------
(* Further claims about the lexer, checked under SpecLex.                  *)

\* The characters of the source the cursor has gone past.
PassedCharacters ==
    IF context.program_index < context.program.count
    THEN context.program_index
    ELSE context.program.count

\* C29: every character of the source is examined exactly once, by the main
\* loop or by a sub-lexer: the reads go over the source in order, no
\* character is read twice, and the cursor never goes past a character that
\* was not read, the one after the closing quote of a literal included.
C29_EveryCharacterExamined ==
    /\ \A i \in DOMAIN lex.examined : lex.examined[i] = i - 1
    /\ PassedCharacters <= Len(lex.examined)

\* C30: a raw newline inside a string literal is accepted: lex_string goes
\* on, the line is one more and the column is 0; and every character between
\* the quotes that is not part of an escape, the newline included, is
\* appended to the payload, in the order of the source.
C30_RawNewlineKept ==
    [][/\ (InString /\ CurrentCharacter = "\n")
          => /\ lex'.pc = "lex_string"
             /\ context'.failed = context.failed
             /\ context'.line = context.line + 1
             /\ context'.column = 0
       /\ (InString /\ CurrentCharacter \notin {"\"", "\\"})
          => Occupied(lex'.string) = Append(Occupied(lex.string), CurrentCharacter)]_vars

\* (line, column) of one lexeme is before that of another.
PositionBefore(a, b) ==
    \/ a.line < b.line
    \/ a.line = b.line /\ a.column < b.column

\* The delimiter at the cursor of the main loop ends a pending accumulation.
DelimiterEndsPending ==
    /\ AtCharacter
    /\ CurrentCharacter \in Delimiters
    /\ context.token_buffer.count > 0

\* C31: the recorded positions of the lexemes appended so far are strictly
\* increasing, line first and column second; and at a delimiter met with a
\* pending accumulation the Atom or Float of that accumulation is appended,
\* at its start position, before anything the delimiter appends: it is the
\* next lexeme of the sequence, and a Newline, Parenthesis or Bracket of the
\* delimiter comes right after it.
C31_SourceOrder ==
    /\ [](\A i \in 1..Len(Lexemes) : \A j \in 1..Len(Lexemes) :
            i < j => PositionBefore(Lexemes[i], Lexemes[j]))
    /\ [][DelimiterEndsPending
            => /\ context'.token_buffer.count = 0
               /\ context'.lexemes.count > context.lexemes.count
               /\ LET flushed == ArrayAt(context'.lexemes, context.lexemes.count)
                  IN  /\ flushed.type \in {"TOKEN_ATOM", "TOKEN_FLOAT"}
                      /\ flushed.line = context.multibyte_line
                      /\ flushed.column = context.multibyte_column
               /\ CurrentCharacter \in {"\n", "(", ")", "{", "}"}
                    => /\ context'.lexemes.count = context.lexemes.count + 2
                       /\ ArrayAt(context'.lexemes, context.lexemes.count + 1).type
                            \in {"TOKEN_NEWLINE", "TOKEN_PARENTHESIS", "TOKEN_BRACKET"}
               /\ CurrentCharacter \in {"\"", "'", " ", "\t"}
                    => context'.lexemes.count = context.lexemes.count + 1]_vars

\* The text a( has been lexed: the Atom a, then the Parenthesis.
C31_Witness ==
    /\ lex.pc = "returned"
    /\ SourceText = <<"a", "(">>
    /\ Len(Lexemes) = 2
    /\ Lexemes[1].type = "TOKEN_ATOM"
    /\ Lexemes[2].type = "TOKEN_PARENTHESIS"
    /\ PositionBefore(Lexemes[1], Lexemes[2])

\* The Atom lexemes appended so far.
AtomLexemes == {k \in 1..Len(Lexemes) : Lexemes[k].type = "TOKEN_ATOM"}

\* C32: the payload of every Atom appended is not empty, is at most
\* MAX_TOKEN_SIZE bytes long and holds no delimiter; and it is a copy of its
\* own: no later step, with its resets and appends to the token buffer,
\* changes an Atom that is in the sequence.
C32_AtomPayload ==
    /\ [](\A k \in AtomLexemes :
            LET payload == Lexemes[k].token.as_atom
            IN  /\ payload.count >= 1
                /\ payload.count <= MAX_TOKEN_SIZE
                /\ payload.count <= payload.capacity
                /\ \A i \in 1..payload.count : payload.elements[i] \notin Delimiters)
    /\ [][\A k \in AtomLexemes :
            /\ k <= context'.lexemes.count
            /\ ArrayAt(context'.lexemes, k - 1) = Lexemes[k]]_vars

\* An Atom was appended and the token buffer was used again after it: the
\* text a, space, n has been lexed as two Atoms.
C32_Witness ==
    /\ lex.pc = "returned"
    /\ SourceText = <<"a", " ", "n">>
    /\ AtomLexemes = {1, 2}
    /\ Occupied(Lexemes[1].token.as_atom) = <<"a">>
    /\ Occupied(Lexemes[2].token.as_atom) = <<"n">>

\* The messages of the two range errors of a flush.
RangeMessages ==
    {"Float conversion results in overflow", "Float conversion results in underflow"}

\* The diagnostics a step adds to stderr.
NewDiagnostics ==
    {lex'.stderr[i] : i \in (Len(lex.stderr) + 1)..Len(lex'.stderr)}

\* C33: a flush decides on the whole pending text.  The lexeme is a Float
\* only if strtod consumed the text to its end.  If strtod stopped before the
\* end, the lexeme is an Atom with the text as it is, also when the part
\* strtod consumed is out of range: no range error is reported and the
\* failed flag is as before.
C33_WholeTextDecides ==
    [][Flushes
        => LET flushed == ArrayAt(context'.lexemes, context.lexemes.count)
               parse == Strtod(PendingText)
           IN  /\ flushed.type = "TOKEN_FLOAT" => parse.end = Len(PendingText)
               /\ parse.end # Len(PendingText)
                    => /\ flushed.type = "TOKEN_ATOM"
                       /\ Occupied(flushed.token.as_atom) = PendingText
                       /\ context'.failed = context.failed
                       /\ \A d \in NewDiagnostics : d.message \notin RangeMessages]_vars

\* The text 1e999a was lexed without an error: one Atom 1e999a, whose
\* numeric prefix 1e999 overflows.
C33_Witness ==
    /\ lex.pc = "returned"
    /\ SourceText = <<"1", "e", "9", "9", "9", "a">>
    /\ Strtod(<<"1", "e", "9", "9", "9">>).erange
    /\ Strtod(SourceText).end = 5
    /\ lex.stderr = <<>>
    /\ Len(Lexemes) = 1
    /\ Lexemes[1].type = "TOKEN_ATOM"
    /\ Occupied(Lexemes[1].token.as_atom) = SourceText

----------------------------------------------------------------------------
(* array.h: sequences of array_append, array_append_many, array_resize,    *)
(* array_expand and array_free on one array of char, called through the    *)
(* functions of sized-string.h.                                            *)

\* Most elements the array is given by the appends of a run.
MaxCount == 2

\* Largest block, in elements of one byte, the realloc of the model gives:
\* it answers a larger request with NULL, as a C library answers a request
\* above the memory it has (a request near SIZE_MAX among them).
MaxAllocation == 12

\* The buffers handed to array_append_many: up to MaxCount elements.
Buffers == UNION {[1..n -> ArrayElements] : n \in 0..MaxCount}

\* The sizes array_expand is called with: small ones, and the two size_t
\* values with which capacity + size wraps around to capacity - 9 and to
\* capacity - 1.
ExpandSizes == {0, 1, 2, SIZE_MAX - 8, SIZE_MAX}

\* sstring_append_many with the memcpy to elements, not elements + count:
\* the buffer is copied over the start of the array.
SstringAppendManyAtStart(string, buffer, element_count) ==
    LET grown ==
            IF element_count + string.count >= string.capacity
            THEN SstringReallocate(
                    [string EXCEPT !.capacity =
                        GrowCapacity(IF 0 = string.capacity
                                     THEN ARRAY_INITIAL_CAPACITY
                                     ELSE string.capacity,
                                     element_count + string.count)])
            ELSE string
    IN  [grown EXCEPT
            !.elements = [k \in 1..Len(grown.elements) |->
                            IF k <= element_count
                            THEN buffer[k]
                            ELSE grown.elements[k]],
            !.count = @ + element_count]

\* sstring_append_many: array_append_many on a block of char.
SstringAppendMany(string, buffer, element_count) ==
    LET grown ==
            IF element_count + string.count >= string.capacity
            THEN SstringReallocate(
                    [string EXCEPT !.capacity =
                        GrowCapacity(IF 0 = string.capacity
                                     THEN ARRAY_INITIAL_CAPACITY
                                     ELSE string.capacity,
                                     element_count + string.count)])
            ELSE string
    IN  [grown EXCEPT
            !.elements = [k \in 1..Len(grown.elements) |->
                            IF k > grown.count /\ k <= grown.count + element_count
                            THEN buffer[k - grown.count]
                            ELSE grown.elements[k]],
            !.count = @ + element_count]

\* The capacity array_append gives the array before it writes.
AppendCapacity(array) ==
    IF array.count >= array.capacity
    THEN IF 0 = array.capacity
         THEN ARRAY_INITIAL_CAPACITY
         ELSE ARRAY_CAPACITY_MULTIPLIER * array.capacity
    ELSE array.capacity

\* The array as array_reallocate leaves it when realloc answered NULL.
ReallocatedToNull(array, capacity) ==
    [array EXCEPT !.elements = <<>>, !.capacity = capacity]

\* What an append records: the indices it wrote at and the capacity the
\* array had when it wrote.
Wrote(op, indices, capacity) ==
    [op |-> op, written |-> indices, capacity |-> capacity]

InitArray ==
    /\ darray = ZeroArray
    /\ status = "running"
    /\ last = Wrote("none", {}, 0)
    /\ program = ZeroArray
    /\ stack = ZeroArray
    /\ stack0 = ZeroArray
    /\ frames = <<>>
    /\ heap = InitialHeap
    /\ context = IdleContext
    /\ lex = IdleLex
    /\ file = IdleFile
    /\ reader = IdleReader

\* sstring_append(&darray, element, realloc) where the slot at count lies
\* in the block.
ArrayAppendCall ==
    /\ status = "running"
    /\ darray.count < MaxCount
    /\ darray.count < AppendCapacity(darray)
    /\ \E element \in ArrayElements :
        darray' = SstringAppend(darray, element)
    /\ last' = Wrote("array_append", {darray.count}, AppendCapacity(darray))
    /\ UNCHANGED <<program, stack, stack0, frames, status, heap, context, lex,
                   file, reader>>

\* sstring_append(&darray, element, realloc) on an array whose count is
\* above its capacity also after the growth: array_set writes past the end
\* of the block, which is undefined; the write is lost or the process is
\* killed.
ArrayAppendOutside ==
    /\ status = "running"
    /\ darray.count < MaxCount + 1
    /\ ~(darray.count < AppendCapacity(darray))
    /\ darray' = [SstringReallocate([darray EXCEPT
                                        !.capacity = AppendCapacity(darray)])
                    EXCEPT !.count = @ + 1]
    /\ last' = Wrote("array_append", {darray.count}, AppendCapacity(darray))
    /\ status' \in {"running", "SIGSEGV"}
    /\ UNCHANGED <<program, stack, stack0, frames, heap, context, lex,
                   file, reader>>

\* sstring_append_many(&darray, buffer, count, realloc).
ArrayAppendManyCall ==
    /\ status = "running"
    /\ \E buffer \in Buffers :
        /\ darray.count + Len(buffer) <= MaxCount
        /\ darray' = SstringAppendMany(darray, buffer, Len(buffer))
        /\ last' = Wrote("array_append_many",
                         darray.count..(darray.count + Len(buffer) - 1),
                         darray'.capacity)
    /\ UNCHANGED <<program, stack, stack0, frames, status, heap, context, lex,
                   file, reader>>

\* sstring_expand(&darray, size, realloc) where realloc gives a block.
ArrayExpandCall ==
    /\ status = "running"
    /\ \E size \in ExpandSizes :
        /\ SizeAdd(darray.capacity, size) <= MaxAllocation
        /\ darray' = SstringExpand(darray, size)
        /\ last' = Wrote("array_expand", {}, 0)
    /\ UNCHANGED <<program, stack, stack0, frames, status, heap, context, lex,
                   file, reader>>

\* sstring_expand(&darray, size, realloc) where realloc answers NULL, for
\* more than it has or for a byte size of 0: array_reallocate reports and
\* calls exit(1).
ArrayExpandNull ==
    /\ status = "running"
    /\ \E size \in ExpandSizes :
        /\ \/ SizeAdd(darray.capacity, size) > MaxAllocation
           \/ SizeAdd(darray.capacity, size) = 0
        /\ darray' = ReallocatedToNull(darray, SizeAdd(darray.capacity, size))
        /\ last' = Wrote("array_expand", {}, 0)
    /\ status' = UNABLE_TO_REALLOCATE
    /\ UNCHANGED <<program, stack, stack0, frames, heap, context, lex,
                   file, reader>>

\* sstring_free(&darray, free).
ArrayFreeCall ==
    /\ status = "running"
    /\ darray' = SstringFree(darray)
    /\ last' = Wrote("array_free", {}, 0)
    /\ UNCHANGED <<program, stack, stack0, frames, status, heap, context, lex,
                   file, reader>>

NextArray ==
    \/ ArrayAppendCall \/ ArrayAppendOutside \/ ArrayAppendManyCall
    \/ ArrayResizeCall \/ ArrayResizeNull
    \/ ArrayExpandCall \/ ArrayExpandNull
    \/ ArrayFreeCall

SpecArray == InitArray /\ [][NextArray]_vars

\* C34: from the zero-initialised array on, count <= capacity after every
\* call of array_append, array_append_many, array_resize, array_expand and
\* array_free; and every append writes only at indices below the capacity
\* the array has when it writes.
C34_CountWithinCapacity ==
    /\ [](darray.count <= darray.capacity)
    /\ [][last'.op \in {"array_append", "array_append_many"}
            => \A index \in last'.written : index < last'.capacity]_vars

----------------------------------------------------------------------------
(* array.h: array_append_many against successive calls of array_append,    *)
(* on the same starting array and buffer.                                  *)

\* The two runs: darray is the array array_append_many is called on; each
\* is a copy of the starting array that array_append is called on with
\* buffer[0], buffer[1], ... in turn, done counting the calls made.
InitialComparison(start, buffer) ==
    [op |-> "none", start |-> start, buffer |-> buffer, each |-> start, done |-> 0]

InitAppendMany ==
    /\ \E start \in Arrays, buffer \in Buffers :
        /\ darray = start
        /\ last = InitialComparison(start, buffer)
    /\ status = "running"
    /\ program = ZeroArray
    /\ stack = ZeroArray
    /\ stack0 = ZeroArray
    /\ frames = <<>>
    /\ heap = InitialHeap
    /\ context = IdleContext
    /\ lex = IdleLex
    /\ file = IdleFile
    /\ reader = IdleReader

\* sstring_append_many(&darray, buffer, n, realloc), called once.
AppendManyOnce ==
    /\ last.op = "none"
    /\ darray' = SstringAppendMany(darray, last.buffer, Len(last.buffer))
    /\ last' = [last EXCEPT !.op = "array_append_many"]
    /\ UNCHANGED <<program, stack, stack0, frames, status, heap, context, lex,
                   file, reader>>

\* sstring_append(&each, buffer[done], realloc): the next of the n calls.
AppendNext ==
    /\ last.done < Len(last.buffer)
    /\ last' = [last EXCEPT !.each = SstringAppend(@, last.buffer[last.done + 1]),
                            !.done = @ + 1]
    /\ UNCHANGED <<program, stack, stack0, frames, status, heap, context, lex,
                   file, reader, darray>>

NextAppendMany == AppendManyOnce \/ AppendNext

SpecAppendMany == InitAppendMany /\ [][NextAppendMany]_vars

\* Both runs are over.
ComparisonDone ==
    /\ last.op = "array_append_many"
    /\ last.done = Len(last.buffer)

\* C35: array_append_many with a buffer of n elements leaves the count and
\* the elements that n calls of array_append with the buffer's elements in
\* order leave: the elements the array had, then those of the buffer.  This
\* for every n from 0 on and every starting array, the zero-initialised one
\* included.
C35_AppendManyAsAppends ==
    ComparisonDone
        => /\ darray.count = last.each.count
           /\ darray.count = last.start.count + Len(last.buffer)
           /\ Occupied(darray) = Occupied(last.each)
           /\ Occupied(darray) = Occupied(last.start) \o last.buffer
           /\ darray.count <= darray.capacity

\* Both runs are over for a starting array of one element with room for
\* two, and a buffer of one element: array_append_many has doubled the
\* capacity, array_append has not.
C35_Witness ==
    /\ ComparisonDone
    /\ last.start.count = 1
    /\ last.start.capacity = 2
    /\ Len(last.buffer) = 1
    /\ darray.capacity = 4
    /\ last.each.capacity = 2

=============================================================================
